---- MODULE Spec2Model ----
(***************************************************************************)
(* The action graph engine of packages/api/src/v3/action.ts:               *)
(* getActionPriority, planAction, executeAction and the registry build of  *)
(* test(), run on the JavaScript event loop (one call stack, a FIFO queue  *)
(* of promise reactions, an await of a settled value taking one tick).     *)
(***************************************************************************)
EXTENDS Integers, Sequences, FiniteSets, TLC

\* ------------------------------------------------------------------ bounds
\* children of the root group carry a priority in 0..MaxChildPriority, or none
MaxChildPriority == 3

\* ------------------------------------------------------- program constants
P0 == 0
P1 == 1
P3 == 3
\* an absent optional field (priority, writes): JavaScript undefined
NoPriority == -1
\* actionMap.get of a name that was never set: undefined
NoNode == 0
\* a promise nobody awaits / the promise awaited by test()
Detached == -1
Driver == 0

NoName == ""
Undefined == "undefined"
RootName == "teamsfx-solution.provision"

\* the action names and inputs keys of the fixture resources
FixtureNames ==
  {"teamsfx-solution.deployBicep", "teamsfx-solution.preProvision",
   "aad.provision", "aad.configure",
   "teams-manifest.init", "teams-manifest.addCapability", "teams-manifest.provision",
   "azure-bot.provision", "azure-bot.configure",
   "azure-web-app.provision", "azure-web-app.configure",
   "azure-storage.provision", "azure-storage.configure"}
FixtureKeys ==
  {"platform", "aad.clientId", "aad.clientSecret", "azure-bot.botAadAppClientId",
   "azure-bot.botId", "tab.endpoint"}

\* the action names of TeamsfxCore.deploy and TeamsfxCore.build and of the
\* actions they call, and the keys of the rename table of a deploy call
DeployName == "fx.deploy"
DeployNames ==
  {DeployName, "fx.build", "fx.preDeploy", "tab-code.build", "teams-bot.build",
   "azure-storage.deploy", "azure-web-app.deploy"}
DeployKeys == {"code", "[object Object]"}

Names == {RootName, "a.x", "a.y", "b.x", "c.x"} \cup FixtureNames \cup DeployNames
Keys == {"k1", "k2", "k3"} \cup FixtureKeys \cup DeployKeys

VARIABLES
  heap,        \* node id -> Action object (objects are shared by reference)
  heap0,       \* the action objects as the resources returned them
  resources,   \* the Action[] each resource returns, as node ids
  registry,    \* actionMap: name -> node id, NoNode when absent
  inputs,      \* the inputs bag: key -> value
  runMode,     \* what test() runs: "plan", "exec" or "planexec"
  pc,          \* position of test()
  bi,          \* <<resource index, action index>> of the registry build
  frames,      \* every planAction/executeAction invocation made so far
  stack,       \* the call stack: frame ids, top last
  microtasks,  \* the promise job queue: frame ids (Driver for test())
  planCalls,   \* nodes whose plan callback was invoked, in order
  planLog,     \* nodes whose plan line was written to the console, in order
  execLog,     \* leaves executed (execute callback invoked / shell line), in order
  resolved,    \* results of getActionPriority seen by the sort comparator
  lastCall,    \* the call being descended through, and the bag before its renames
  observed,    \* what each call target saw in the bag when it was entered
  planResult,  \* how the promise of planAction(root) settled, as test() saw it
  execResult,  \* how the promise of executeAction(root) settled, as test() saw it
  unhandled    \* rejected promises nobody awaits

\* the Teams bot SSO prompt of dotnet-sdk (TeamsBotSsoPrompt) and one conversation
VARIABLES
  ppc,         \* position of the bot: constructing, between turns, inside a turn
  ctor,        \* the arguments of the constructor call and how it ended
  prompt,      \* the constructed prompt (_settings, _authenticationOptions), if any
  channel,     \* Activity.ChannelId of the conversation
  clock,       \* DateTime.UtcNow
  dialog,      \* the prompt's instance on the dialog stack and its State["expires"]
  sent,        \* activities sent through the turn context in the current turn
  turn,        \* the current (last) call of BeginDialogAsync / ContinueDialogAsync
  turns        \* number of turns taken

\* fx.preConfigure (fx-core)
VARIABLES
  cpc,            \* position of the step: ready, planned, done
  projectSetting, \* context.projectSetting
  envInfo,        \* context.envInfo: envName and state
  cinputs,        \* inputs.m365ApplicationIdUri
  coutcome        \* how execute ended

\* runTask and the task event handlers (vscode-extension)
VARIABLES
  tasks,          \* the tasks as VS Code sees them: id, execution, events delivered
  trackedTasks,   \* the ids in the map trackedTasks
  runs            \* per task, the call of runTask: listeners, timer, promise

\* ApiConnectorImpl.scaffold
VARIABLES
  spc,            \* where scaffold stands: backup, try, catch, finally, returned, thrown
  selected,       \* config.ComponentType
  folder,         \* per component, the files of its folder
  backup,         \* per component, the backup folder inside it
  scaffolding,    \* per component, the step scaffoldInComponent stands at
  restoring,      \* per component, the step of the restore in the catch block
  err             \* the component whose scaffolding failed first, if any

avars == <<heap, heap0, resources, registry, inputs, runMode, pc, bi, frames, stack,
           microtasks, planCalls, planLog, execLog, resolved, lastCall, observed,
           planResult, execResult, unhandled>>
pvars == <<ppc, ctor, prompt, channel, clock, dialog, sent, turn, turns>>
cvars == <<cpc, projectSetting, envInfo, cinputs, coutcome>>
tvars == <<tasks, trackedTasks, runs>>
svars == <<spc, selected, folder, backup, scaffolding, restoring, err>>
vars == <<avars, pvars, cvars, tvars, svars>>

\* ------------------------------------------------------------ Action model
Node(t, nm, p, m, as, req, tgt, ins, w, f) ==
  [type |-> t, name |-> nm, priority |-> p, mode |-> m, actions |-> as,
   required |-> req, targetAction |-> tgt, inputs |-> ins, writes |-> w, fails |-> f]

\* the inputs keys the plan callback and the execute callback of a function assign
Writes(planKeys, executeKeys) == [plan |-> planKeys, execute |-> executeKeys]
NoWrites == Writes({}, {})

\* w: the inputs key both callbacks assign, if any; f: execute returns err(...)
FunctionAction(nm, p, w, f) ==
  Node("function", nm, p, "", <<>>, FALSE, "", <<>>,
       IF w = "" THEN NoWrites ELSE Writes({w}, {w}), f)
ShellAction(p) == Node("shell", NoName, p, "", <<>>, FALSE, "", <<>>, NoWrites, FALSE)
\* inputs: the rename table, a sequence of <<target key, source key>> in Object.keys order
CallAction(req, tgt, ins, p) == Node("call", NoName, p, "", <<>>, req, tgt, ins, NoWrites, FALSE)
\* a call action that carries a name of its own
NamedCall(nm, req, tgt) == [CallAction(req, tgt, <<>>, NoPriority) EXCEPT !.name = nm]
GroupAction(nm, m, as, p) == Node("group", nm, p, m, as, FALSE, "", <<>>, NoWrites, FALSE)

Priorities == {NoPriority} \cup (0..MaxChildPriority)
Modes == {"", "sequential", "parallel"}

\* rename tables: none, one entry, two entries where one reads what the other
\* wrote, and one entry whose source key holds no value
RenameTables ==
  { <<>>, << <<"k3", "k1">> >>, << <<"k2", "k1">>, <<"k3", "k2">> >>,
    << <<"k3", "k2">>, <<"k2", "k1">> >>, << <<"k1", "k3">> >> }

\* --------------------------------------------------- the graphs explored
\* Node 1 is the root group with children 2, 3, 4; nodes 5 and 6 are
\* the actions of resource "a"; node 7 is the group b.x of resource "b" with
\* children 8 and 9. No resource returns an action named c.x at top level.
Heap(m1, c2, c3, c4, n5, n6, n7, n8, n9) ==
  [n \in 1..9 |->
     CASE n = 1 -> GroupAction(RootName, m1, <<2, 3, 4>>, NoPriority)
       [] n = 2 -> c2
       [] n = 3 -> c3
       [] n = 4 -> c4
       [] n = 5 -> n5
       [] n = 6 -> n6
       [] n = 7 -> n7
       [] n = 8 -> n8
       [] n = 9 -> n9]

Resources == << <<1>>, <<5, 6>>, <<7>> >>

\* graphs whose root holds leaves only, under every assignment of priorities:
\* child 2 is a function whose execute may return an error, child 3 a function
\* or a shell command, whose command, when run, may exit with a non-zero status
LeafGraphs ==
  { Heap(m1, FunctionAction(NoName, p2, "", k[1]),
         CASE k[2] = "shell" -> ShellAction(p3)
           [] k[2] = "shell fails" -> [ShellAction(p3) EXCEPT !.fails = TRUE]
           [] OTHER -> FunctionAction(NoName, p3, "", FALSE),
         FunctionAction(NoName, p4, "", FALSE),
         FunctionAction("a.x", NoPriority, "k1", FALSE),
         FunctionAction("a.y", NoPriority, "", FALSE),
         GroupAction("b.x", "", <<8, 9>>, NoPriority),
         FunctionAction(NoName, NoPriority, "", FALSE),
         FunctionAction(NoName, NoPriority, "", FALSE)) :
      m1 \in Modes, p2 \in Priorities, p3 \in Priorities, p4 \in Priorities,
      k \in {<<FALSE, "function">>, <<TRUE, "function">>, <<FALSE, "shell">>,
             <<FALSE, "shell fails">>} }

CallOptions ==
  {CallAction(FALSE, "a.x", t, NoPriority) : t \in RenameTables}
    \cup {CallAction(r, "c.x", << <<"k3", "k1">> >>, NoPriority) : r \in BOOLEAN}
    \cup {CallAction(TRUE, "a.y", <<>>, NoPriority), CallAction(TRUE, "b.x", <<>>, NoPriority)}

\* what the resources contribute next to a.x: <<name of node 6, priority of node 6,
\* priority of the group b.x, priority of its second child, its first child>>
Contributions ==
  LET leaf == FunctionAction(NoName, NoPriority, "", FALSE)
  IN { <<"a.y", NoPriority, NoPriority, NoPriority, leaf>>,
       <<"a.y", P1, NoPriority, NoPriority, leaf>>,
       <<"a.x", NoPriority, NoPriority, NoPriority, leaf>>,
       <<"b.x", NoPriority, NoPriority, NoPriority, leaf>>,
       <<NoName, NoPriority, NoPriority, NoPriority, leaf>>,
       <<"a.y", NoPriority, P0, P1, leaf>>,
       <<"a.y", NoPriority, P1, NoPriority, CallAction(TRUE, "c.x", <<>>, NoPriority)>> }

\* graphs whose root holds calls: registered and unregistered targets, a target
\* that is a group, two actions under one name, priorities on the targets; the
\* action named c.x is only a child of the returned group b.x
CallGraphs ==
  { Heap(m1, c2, c3, FunctionAction(NoName, NoPriority, "", FALSE),
         FunctionAction("a.x", NoPriority, "k1", FALSE),
         FunctionAction(c[1], c[2], "", FALSE),
         GroupAction("b.x", "", <<8, 9>>, c[3]),
         c[5],
         FunctionAction("c.x", c[4], "", FALSE)) :
      m1 \in {"", "parallel"}, c2 \in CallOptions, c3 \in CallOptions, c \in Contributions }

\* ------------------------------------------------------------ fixture
\* a function action of a fixture resource: no priority, execute returns ok(undefined)
ProvisionAction(nm, planKeys, executeKeys) ==
  Node("function", nm, NoPriority, "", <<>>, FALSE, "", <<>>,
       Writes(planKeys, executeKeys), FALSE)

\* actions(context) of the fixture resources, in the order of the returned array
AADResource ==
  << ProvisionAction("aad.provision", {"aad.clientId", "aad.clientSecret"},
                     {"aad.clientId", "aad.clientSecret"}),
     ProvisionAction("aad.configure", {}, {}) >>
AzureStorageResource ==
  << ProvisionAction("azure-storage.configure", {}, {}),
     ProvisionAction("azure-storage.configure", {}, {}) >>
AzureWebAppResource == << ProvisionAction("azure-web-app.configure", {}, {}) >>
AzureBotResource ==
  << ProvisionAction("azure-bot.provision", {},
                     {"azure-bot.botAadAppClientId", "azure-bot.botId"}) >>
TeamsManifestResource ==
  << ProvisionAction("teams-manifest.init", {}, {}),
     ProvisionAction("teams-manifest.addCapability", {}, {}),
     ProvisionAction("teams-manifest.provision", {}, {}) >>
deployBicep == ProvisionAction("teamsfx-solution.deployBicep", {}, {"tab.endpoint"})
preProvision == ProvisionAction("teamsfx-solution.preProvision", {}, {})

\* solutionSettings.activeResourcePlugins of test(), and one list without azure-bot
ActiveResourcePlugins == <<"aad", "azure-storage", "azure-web-app", "azure-bot">>
PluginLists == {ActiveResourcePlugins, <<"aad", "azure-storage">>}

\* a plugin list that is taken to hold nothing
IncludesNothing(list, p) == FALSE

\* Array.prototype.includes
Includes(list, p) == \E i \in DOMAIN list : list[i] = p

\* a template that names aad.provision whatever the plugin
ProvisionTargetAlwaysAad(p) == "aad.provision"

\* `${p}.provision`
ProvisionTarget(p) ==
  CASE p = "aad" -> "aad.provision"
    [] p = "azure-storage" -> "azure-storage.provision"
    [] p = "azure-web-app" -> "azure-web-app.provision"
    [] p = "azure-bot" -> "azure-bot.provision"

\* `${p}.configure`
ConfigureTarget(p) ==
  CASE p = "aad" -> "aad.configure"
    [] p = "azure-storage" -> "azure-storage.configure"
    [] p = "azure-web-app" -> "azure-web-app.configure"
    [] p = "azure-bot" -> "azure-bot.configure"

Ids(base, n) == [i \in 1..n |-> base + i]

\* TeamsfxSolutionResource.provision(context): the root group and the actions
\* nested in it, which take the nodes after `base`: first provisionSequences,
\* then provisionActions, then configureActions
provision(plugins, base) ==
  LET provisionPlugins == SelectSeq(plugins, LAMBDA p : p # "azure-bot")
      provisionActions ==
        [i \in DOMAIN provisionPlugins |->
           CallAction(FALSE, ProvisionTarget(provisionPlugins[i]), <<>>, NoPriority)]
      configureActions ==
        [i \in DOMAIN plugins |->
           CallAction(FALSE, ConfigureTarget(plugins[i]), <<>>, NoPriority)]
      botProvision ==
        IF Includes(plugins, "azure-bot")
          THEN << CallAction(FALSE, "azure-bot.provision", <<>>, NoPriority) >>
          ELSE <<>>
      provisionSequences(provisionIds, configureIds) ==
        << CallAction(FALSE, "teamsfx-solution.preProvision", <<>>, NoPriority),
           GroupAction(NoName, "parallel", provisionIds, NoPriority),
           CallAction(TRUE, "teamsfx-solution.deployBicep", <<>>, NoPriority) >>
        \o botProvision
        \o << ProvisionAction(NoName, {}, {}),
              GroupAction(NoName, "parallel", configureIds, NoPriority),
              CallAction(TRUE, "teams-manifest.provision", <<>>, NoPriority) >>
      n == Len(provisionSequences(<<>>, <<>>))
  IN [root |-> GroupAction(RootName, "", Ids(base, n), NoPriority),
      nested |-> provisionSequences(Ids(base + n, Len(provisionActions)),
                                    Ids(base + n + Len(provisionActions),
                                        Len(configureActions)))
                   \o provisionActions \o configureActions]

\* the actions the six resources of test() return, resource after resource,
\* followed by the actions nested in the root group
FixtureHeap(plugins) ==
  LET returned(root) ==
        <<deployBicep, root, preProvision>> \o AADResource \o TeamsManifestResource
          \o AzureBotResource \o AzureWebAppResource \o AzureStorageResource
      solution == provision(plugins, Len(returned(preProvision)))
  IN returned(solution.root) \o solution.nested

\* resource.actions(context) of the six resources, in the order of test()
FixtureResources == << <<1, 2, 3>>, <<4, 5>>, <<6, 7, 8>>, <<9>>, <<10>>, <<11, 12>> >>

\* ------------------------------------------------------------ fx.deploy
\* projectSetting.components: a tab with its own code component, a bot that is
\* built under its own name, and a resource that has nothing to build
NoComponent == [name |-> "", hosting |-> "", build |-> FALSE, code |-> ""]
ProjectSettings ==
  [components |->
     << [name |-> "teams-tab", hosting |-> "azure-storage", build |-> TRUE,
         code |-> "tab-code"],
        [name |-> "teams-bot", hosting |-> "azure-web-app", build |-> TRUE, code |-> ""],
        [name |-> "azure-storage", hosting |-> "", build |-> FALSE, code |-> ""] >>]

\* inputs["deploy-plugin"]: two components of the project and one that is not
DeployPlugin == <<"teams-tab", "teams-bot", "aad">>

\* the component of that name, NoComponent when the project has none
getComponent(projectSettings, name) ==
  LET at == {i \in DOMAIN projectSettings.components :
               projectSettings.components[i].name = name}
  IN IF at = {} THEN NoComponent
     ELSE projectSettings.components[CHOOSE i \in at : \A j \in at : i <= j]

\* `${component}.build` and `${componentConfig.hosting}.deploy`
BuildTarget(component) ==
  CASE component = "tab-code" -> "tab-code.build"
    [] component = "teams-bot" -> "teams-bot.build"
    [] component = "teams-tab" -> "teams-tab.build"
    [] component = "azure-storage" -> "azure-storage.build"
DeployTarget(hosting) ==
  CASE hosting = "azure-storage" -> "azure-storage.deploy"
    [] hosting = "azure-web-app" -> "azure-web-app.deploy"

\* new FxPreDeployAction(): a function action
FxPreDeployAction == FunctionAction("fx.preDeploy", NoPriority, "", FALSE)

\* TeamsfxCore.build: the parallel group fx.build of required calls, one for
\* each component that has something to build; the calls take the nodes after `base`
build(projectSettings, base) ==
  LET built == SelectSeq(projectSettings.components, LAMBDA resource : resource.build)
      actions ==
        [i \in DOMAIN built |->
           LET component == IF built[i].code # "" THEN built[i].code
                            ELSE built[i].name
           IN CallAction(TRUE, BuildTarget(component), <<>>, NoPriority)]
  IN [group |-> GroupAction("fx.build", "parallel", Ids(base, Len(actions)), NoPriority),
      nested |-> actions]

\* TeamsfxCore.deploy: the group fx.deploy of FxPreDeployAction, the required
\* call to fx.build and one optional call `${hosting}.deploy` for each deployed
\* component the project has; its children take the nodes after `base`
deploy(projectSettings, components, base) ==
  LET configs == [i \in DOMAIN components |-> getComponent(projectSettings, components[i])]
      found == SelectSeq(configs, LAMBDA componentConfig : componentConfig # NoComponent)
      actions ==
        << FxPreDeployAction,
           NamedCall("call:fx.build", TRUE, "fx.build") >>
        \o [i \in DOMAIN found |->
              CallAction(FALSE, DeployTarget(found[i].hosting),
                         << <<"code", "[object Object]">> >>, NoPriority)]
  IN [group |-> GroupAction(DeployName, "", Ids(base, Len(actions)), NoPriority),
      nested |-> actions]

\* the registered actions: fx.deploy, fx.build, the two build functions and the
\* two deploy functions, which carry the priorities p1 and p2; after them the
\* children of fx.deploy and of fx.build
DeployHeap(p1, p2) ==
  LET targets ==
        << FunctionAction("tab-code.build", NoPriority, "", FALSE),
           FunctionAction("teams-bot.build", NoPriority, "", FALSE),
           FunctionAction("azure-storage.deploy", p1, "", FALSE),
           FunctionAction("azure-web-app.deploy", p2, "", FALSE) >>
      base == Len(<<DeployName, "fx.build">>) + Len(targets)
      fxDeploy == deploy(ProjectSettings, DeployPlugin, base)
      fxBuild == build(ProjectSettings, base + Len(fxDeploy.nested))
  IN <<fxDeploy.group, fxBuild.group>> \o targets \o fxDeploy.nested \o fxBuild.nested

\* the component "fx" returns fx.deploy and fx.build; each target comes from
\* a component of its own
DeployResources == << <<1, 2>>, <<3>>, <<4>>, <<5>>, <<6>> >>

\* ------------------------------------------------------------ cycles
\* graphs in which a registered action calls itself: a.x calls a.x; a.x calls
\* a.y, which calls a.x; the group b.x holds a call to b.x. The root reaches
\* the cycle through its second child, after a function and before another.
CycleGraphs ==
  LET leaf == FunctionAction(NoName, NoPriority, "", FALSE)
      graph(m1, tgt, n5, n6, n8) ==
        Heap(m1, leaf, CallAction(TRUE, tgt, <<>>, NoPriority), leaf,
             n5, n6, GroupAction("b.x", "", <<8, 9>>, NoPriority), n8, leaf)
  IN UNION { { graph(m1, "a.x", NamedCall("a.x", TRUE, "a.x"),
                     FunctionAction("a.y", NoPriority, "", FALSE), leaf),
               graph(m1, "a.x", NamedCall("a.x", FALSE, "a.y"),
                     NamedCall("a.y", FALSE, "a.x"), leaf),
               graph(m1, "b.x", FunctionAction("a.x", NoPriority, "k1", FALSE),
                     FunctionAction("a.y", NoPriority, "", FALSE),
                     CallAction(FALSE, "b.x", <<>>, NoPriority)) } :
             m1 \in {"", "parallel"} }

\* no bot is running next to the action engine
PromptOff ==
  /\ ppc = "off"
  /\ ctor = [outcome |-> "none"]
  /\ prompt = [constructed |-> FALSE]
  /\ channel = ""
  /\ clock = 0
  /\ dialog = [active |-> FALSE]
  /\ sent = <<>>
  /\ turn = [op |-> "none"]
  /\ turns = 0

\* no fx.preConfigure step is running
ConfigureOff ==
  /\ cpc = "off"
  /\ projectSetting = <<>>
  /\ envInfo = <<>>
  /\ cinputs = <<>>
  /\ coutcome = "none"

\* no connector is being scaffolded
ScaffoldOff ==
  /\ spc = "off" /\ selected = {} /\ folder = <<>> /\ backup = <<>>
  /\ scaffolding = <<>> /\ restoring = <<>> /\ err = ""

\* no task is known
TaskOff ==
  /\ tasks = <<>>
  /\ trackedTasks = {}
  /\ runs = <<>>

\* the action graphs and resources whose call targets form no cycle
ActionGraphs ==
  \/ /\ heap \in LeafGraphs \cup CallGraphs
     /\ resources = Resources
  \/ /\ heap \in {FixtureHeap(plugins) : plugins \in PluginLists}
     /\ resources = FixtureResources
  \/ /\ heap \in {DeployHeap(p1, p2) : p1 \in Priorities, p2 \in Priorities}
     /\ resources = DeployResources

\* test() before its first statement, the graph being given
Start ==
  /\ heap0 = heap
  /\ registry = [nm \in Names |-> NoNode]
  /\ inputs = [k \in Keys |-> CASE k = "k1" -> "v1" [] k = "k2" -> "v2"
                                 [] k = "platform" -> "vsc" [] OTHER -> Undefined]
  /\ runMode \in {"plan", "exec", "planexec"}
  /\ pc = "build"
  /\ bi = <<1, 1>>
  /\ frames = <<>>
  /\ stack = <<>>
  /\ microtasks = <<>>
  /\ planCalls = <<>>
  /\ planLog = <<>>
  /\ execLog = <<>>
  /\ resolved = {}
  /\ lastCall = [call |-> NoNode, pre |-> inputs]
  /\ observed = <<>>
  /\ planResult = "none"
  /\ execResult = "none"
  /\ unhandled = 0
  /\ PromptOff
  /\ ConfigureOff
  /\ TaskOff
  /\ ScaffoldOff

Init == ActionGraphs /\ Start

\* ------------------------------------------------------- Resource Registry
\* a registry that keeps the first action of a name
RegistrySetKeepsFirst(actions, name, node) ==
  IF actions[name] # NoNode THEN actions ELSE [actions EXCEPT ![name] = node]

\* a registry that drops every action handed to it
RegistrySetDrops(actions, name, node) == actions

\* actionMap.set(action.name, action)
RegistrySet(actions, name, node) == [actions EXCEPT ![name] = node]

\* one iteration of actions.forEach inside the loop over resources
RegisterAction ==
  /\ pc = "build"
  /\ bi[1] <= Len(resources)
  /\ LET acts == resources[bi[1]]
         node == acts[bi[2]]
     IN /\ registry' = IF heap[node].name # NoName
                         THEN RegistrySet(registry, heap[node].name, node)
                         ELSE registry
        /\ bi' = IF bi[2] < Len(acts) THEN <<bi[1], bi[2] + 1>> ELSE <<bi[1] + 1, 1>>
  /\ UNCHANGED <<heap, heap0, resources, inputs, runMode, pc, frames, stack, microtasks,
                 planCalls, planLog, execLog, resolved, lastCall, observed, planResult,
                 execResult, unhandled, pvars, cvars, tvars, svars>>

\* ------------------------------------------------------- Priority Resolver
\* `if (x)` on an optional number: undefined and 0 are both falsy
Truthy(p) == p # NoPriority /\ p # 0

getActionPriority(action, actions) ==
  IF Truthy(action.priority) THEN action.priority
  ELSE IF /\ action.type = "call"
          /\ actions[action.targetAction] # NoNode
          /\ Truthy(heap[actions[action.targetAction]].priority)
       THEN heap[actions[action.targetAction]].priority
       ELSE P3

\* Array.prototype.sort with the comparator p1 - p2: ascending and stable
SortActions(children, actions) ==
  LET key(i) == getActionPriority(heap[children[i]], actions)
      rank(i) == Cardinality({j \in 1..Len(children) :
                                 key(j) < key(i) \/ (key(j) = key(i) /\ j < i)}) + 1
  IN [k \in 1..Len(children) |-> children[CHOOSE i \in 1..Len(children) : rank(i) = k]]

\* a walker that sorts the children of every group, the parallel ones included
SortsEveryGroup(action) == TRUE

\* the group modes whose children planAction sorts
SortsChildren(action) == action.mode = "" \/ action.mode = "sequential"

\* ----------------------------------------------------------- event loop
\* the deepest nesting of running invocations that is explored
MaxDepth == 8

Top == stack[Len(stack)]
Pop == SubSeq(stack, 1, Len(stack) - 1)
\* an await that takes every promise for settled, so never waits
SettledAlways(f) == TRUE
\* an await that takes no promise for settled, so always waits to be woken
SettledNever(f) == FALSE

Settled(f) == frames[f].status \in {"fulfilled", "rejected"}

At(fn, where, type) ==
  /\ stack # <<>>
  /\ frames[Top].fn = fn
  /\ frames[Top].pc = where
  /\ heap[frames[Top].node].type = type

NewFrame(fn, node, awaiter, via) ==
  [fn |-> fn, node |-> node, pc |-> "start", i |-> 0, child |-> 0, awaiter |-> awaiter,
   status |-> "running", via |-> via, planAt |-> Len(planLog), execAt |-> Len(execLog)]

\* the running invocation calls fn(node): the callee runs on top of the caller
Invoke(fn, node, awaiter, via, callerPc, callerI) ==
  /\ Len(stack) < MaxDepth
  /\ frames' = Append([frames EXCEPT ![Top].pc = callerPc, ![Top].i = callerI,
                                      ![Top].child = Len(frames) + 1],
                      NewFrame(fn, node, awaiter, via))
  /\ stack' = Append(stack, Len(frames) + 1)

\* the running invocation returns or throws: its promise settles, and the
\* invocation awaiting it, if it is already suspended on it, is queued
Settle(st) ==
  LET f == Top
      a == frames[f].awaiter
      wake == a = Driver \/ (a > 0 /\ frames[a].status = "suspended")
  IN /\ frames' = [n \in DOMAIN frames |->
                     IF n = f THEN [frames[n] EXCEPT !.status = st, !.pc = "end"]
                     ELSE IF wake /\ n = a THEN [frames[n] EXCEPT !.status = "queued"]
                     ELSE frames[n]]
     /\ stack' = Pop
     /\ microtasks' = IF wake THEN Append(microtasks, a) ELSE microtasks
     /\ unhandled' = IF st = "rejected" /\ a = Detached THEN unhandled + 1 ELSE unhandled

\* an await whose continuation starts the invocation over, calling the callback again
AwaitValueRestarts(next) ==
  /\ frames' = [frames EXCEPT ![Top].status = "queued"]
  /\ microtasks' = Append(microtasks, Top)
  /\ stack' = Pop

\* `await callback(...)`: the callback has returned; the continuation is queued
AwaitValue(next) ==
  /\ frames' = [frames EXCEPT ![Top].pc = next, ![Top].status = "queued"]
  /\ microtasks' = Append(microtasks, Top)
  /\ stack' = Pop

\* `await p` on the promise of the invocation just called
AwaitChild ==
  /\ stack # <<>>
  /\ frames[Top].pc = "await"
  /\ LET c == frames[Top].child
     IN /\ frames' = [frames EXCEPT ![Top].pc = "resume",
                        ![Top].status = IF Settled(c) THEN "queued" ELSE "suspended"]
        /\ microtasks' = IF Settled(c) THEN Append(microtasks, Top) ELSE microtasks
  /\ stack' = Pop
  /\ UNCHANGED <<heap, heap0, resources, registry, inputs, runMode, pc, bi, planCalls,
                 planLog, execLog, resolved, lastCall, observed, planResult, execResult,
                 unhandled, pvars, cvars, tvars, svars>>

\* the event loop takes the next promise job once the call stack is empty
RunMicrotask ==
  /\ stack = <<>>
  /\ pc # "planned"
  /\ microtasks # <<>>
  /\ Head(microtasks) # Driver
  /\ stack' = <<Head(microtasks)>>
  /\ microtasks' = Tail(microtasks)
  /\ frames' = [frames EXCEPT ![Head(microtasks)].status = "running"]
  /\ UNCHANGED <<heap, heap0, resources, registry, inputs, runMode, pc, bi, planCalls,
                 planLog, execLog, resolved, lastCall, observed, planResult, execResult,
                 unhandled, pvars, cvars, tvars, svars>>

\* what a call target sees in the bag when it is entered
Observe ==
  observed' = IF frames[Top].via # NoNode
                THEN Append(observed, [call |-> frames[Top].via, target |-> frames[Top].node,
                                       fn |-> frames[Top].fn, pre |-> lastCall.pre,
                                       seen |-> inputs])
                ELSE observed

\* what no step of a walker changes
fixed == <<heap0, resources, registry, runMode, bi, pc, planResult, execResult, pvars, cvars, tvars, svars>>

\* ------------------------------------------------------------ inputs bag
\* a rename that copies the wrong way round: inputs[source] = inputs[target]
RECURSIVE ApplyRenameReversed(_, _)
ApplyRenameReversed(bag, table) ==
  IF table = <<>> THEN bag
  ELSE ApplyRenameReversed([bag EXCEPT ![table[1][2]] = bag[table[1][1]]], Tail(table))

\* a rename that skips every entry whose source key holds no value
RECURSIVE ApplyRenameDefined(_, _)
ApplyRenameDefined(bag, table) ==
  IF table = <<>> THEN bag
  ELSE ApplyRenameDefined(IF bag[table[1][2]] = Undefined THEN bag
                          ELSE [bag EXCEPT ![table[1][1]] = bag[table[1][2]]],
                          Tail(table))

\* a rename that moves instead of copying: the source key is cleared
RECURSIVE ApplyRenameMoves(_, _)
ApplyRenameMoves(bag, table) ==
  IF table = <<>> THEN bag
  ELSE ApplyRenameMoves([bag EXCEPT ![table[1][1]] = bag[table[1][2]],
                                    ![table[1][2]] = Undefined], Tail(table))

\* for (const target of Object.keys(action.inputs)) inputs[target] = inputs[source]
RECURSIVE ApplyRename(_, _)
ApplyRename(bag, table) ==
  IF table = <<>> THEN bag
  ELSE ApplyRename([bag EXCEPT ![table[1][1]] = bag[table[1][2]]], Tail(table))

\* a plan callback that does the work of the execute callback
PlanCallbackExecutes(action, bag) ==
  [k \in DOMAIN bag |-> IF k \in action.writes.execute THEN "executed" ELSE bag[k]]

\* a plan callback may put a placeholder under its key (AADResource.provision)
PlanCallback(action, bag) ==
  [k \in DOMAIN bag |-> IF k \in action.writes.plan THEN "planned" ELSE bag[k]]

\* an execute callback puts its output under its key (deployBicep)
ExecuteCallback(action, bag) ==
  [k \in DOMAIN bag |-> IF k \in action.writes.execute THEN "executed" ELSE bag[k]]

\* -------------------------------------------------------------- call
\* a call that never throws on an absent target / that throws on every absent target
CallNeverThrows(action, target) == FALSE
CallAlwaysThrows(action, target) == target = NoNode

\* if (action.required && !targetAction) throw new Error(...)
CallThrows(action, target) == action.required /\ target = NoNode

\* ------------------------------------------------------------ Plan Walker
\* function: action.plan(context, inputs) is invoked, its result awaited
PlanFunction ==
  /\ At("plan", "start", "function")
  /\ planCalls' = Append(planCalls, frames[Top].node)
  /\ inputs' = PlanCallback(heap[frames[Top].node], inputs)
  /\ Observe
  /\ AwaitValue("log")
  /\ UNCHANGED <<heap, planLog, execLog, resolved, lastCall, unhandled, fixed>>

\* function: console.log("plan:" + description)
PlanFunctionLog ==
  /\ At("plan", "log", "function")
  /\ planLog' = Append(planLog, frames[Top].node)
  /\ Settle("fulfilled")
  /\ UNCHANGED <<heap, inputs, planCalls, execLog, resolved, lastCall, observed, fixed>>

\* shell: console.log("plan: shell " + action.command)
PlanShell ==
  /\ At("plan", "start", "shell")
  /\ planLog' = Append(planLog, frames[Top].node)
  /\ Observe
  /\ Settle("fulfilled")
  /\ UNCHANGED <<heap, inputs, planCalls, execLog, resolved, lastCall, fixed>>

\* call, target absent and required: throw
PlanCallMissing ==
  /\ At("plan", "start", "call")
  /\ CallThrows(heap[frames[Top].node], registry[heap[frames[Top].node].targetAction])
  /\ Observe
  /\ Settle("rejected")
  /\ UNCHANGED <<heap, inputs, planCalls, planLog, execLog, resolved, lastCall, fixed>>

\* call, target absent and optional: nothing to do
PlanCallSkip ==
  /\ At("plan", "start", "call")
  /\ registry[heap[frames[Top].node].targetAction] = NoNode
  /\ ~CallThrows(heap[frames[Top].node], registry[heap[frames[Top].node].targetAction])
  /\ Observe
  /\ Settle("fulfilled")
  /\ UNCHANGED <<heap, inputs, planCalls, planLog, execLog, resolved, lastCall, fixed>>

\* call, target present: rename, then planAction(target) without awaiting it
PlanCallDescend ==
  /\ At("plan", "start", "call")
  /\ LET action == heap[frames[Top].node]
         target == registry[action.targetAction]
     IN /\ target # NoNode
        /\ ~CallThrows(action, target)
        /\ inputs' = ApplyRename(inputs, action.inputs)
        /\ lastCall' = [call |-> frames[Top].node, pre |-> inputs]
        /\ Invoke("plan", target, Detached, frames[Top].node, "return", 0)
  /\ Observe
  /\ UNCHANGED <<heap, microtasks, planCalls, planLog, execLog, resolved, unhandled, fixed>>

\* call: the target's invocation handed control back; the call's own plan ends
PlanCallReturn ==
  /\ At("plan", "return", "call")
  /\ Settle("fulfilled")
  /\ UNCHANGED <<heap, inputs, planCalls, planLog, execLog, resolved, lastCall, observed,
                 fixed>>

\* group: a sequential group sorts its children in place, by resolved priority
PlanGroup ==
  /\ At("plan", "start", "group")
  /\ LET g == frames[Top].node
         action == heap[g]
     IN IF SortsChildren(action)
          THEN /\ heap' = [heap EXCEPT ![g].actions = SortActions(action.actions, registry)]
               /\ resolved' = resolved \cup
                    (IF Len(action.actions) > 1
                       THEN {<<n, getActionPriority(heap[n], registry)>> :
                               n \in {action.actions[i] : i \in 1..Len(action.actions)}}
                       ELSE {})
          ELSE UNCHANGED <<heap, resolved>>
  /\ frames' = [frames EXCEPT ![Top].pc = "loop", ![Top].i = 1]
  /\ Observe
  /\ UNCHANGED <<stack, microtasks, inputs, planCalls, planLog, execLog, lastCall,
                 unhandled, fixed>>

\* group: for (const act of action.actions) await planAction(..., act, ...)
PlanGroupNext ==
  /\ At("plan", "loop", "group")
  /\ LET action == heap[frames[Top].node]
         i == frames[Top].i
     IN IF i <= Len(action.actions)
          THEN /\ Invoke("plan", action.actions[i], Top, NoNode, "await", i)
               /\ UNCHANGED <<microtasks, unhandled>>
          ELSE Settle("fulfilled")
  /\ UNCHANGED <<heap, inputs, planCalls, planLog, execLog, resolved, lastCall, observed,
                 fixed>>

\* group: the awaited child settled; a rejection is rethrown out of the loop
PlanGroupResume ==
  /\ At("plan", "resume", "group")
  /\ IF frames[frames[Top].child].status = "rejected"
       THEN Settle("rejected")
       ELSE /\ frames' = [frames EXCEPT ![Top].pc = "loop", ![Top].i = @ + 1]
            /\ UNCHANGED <<stack, microtasks, unhandled>>
  /\ UNCHANGED <<heap, inputs, planCalls, planLog, execLog, resolved, lastCall, observed,
                 fixed>>

\* --------------------------------------------------------- Execute Walker
\* function: console.log("execute:" + name); action.execute(context, inputs) is
\* invoked and its promise awaited
ExecFunction ==
  /\ At("exec", "start", "function")
  /\ execLog' = Append(execLog, frames[Top].node)
  /\ inputs' = ExecuteCallback(heap[frames[Top].node], inputs)
  /\ Observe
  /\ AwaitValue("done")
  /\ UNCHANGED <<heap, planCalls, planLog, resolved, lastCall, unhandled, fixed>>

\* the statement `await action.execute(context, inputs);` keeps no result: the
\* invocation ends normally whatever Result the callback returned
ExecuteOutcome(action) == "fulfilled"

ExecFunctionDone ==
  /\ At("exec", "done", "function")
  /\ Settle(ExecuteOutcome(heap[frames[Top].node]))
  /\ UNCHANGED <<heap, inputs, planCalls, planLog, execLog, resolved, lastCall, observed,
                 fixed>>

\* shell: console.log("shell:" + action.command)
ExecShell ==
  /\ At("exec", "start", "shell")
  /\ execLog' = Append(execLog, frames[Top].node)
  /\ Observe
  /\ Settle("fulfilled")
  /\ UNCHANGED <<heap, inputs, planCalls, planLog, resolved, lastCall, fixed>>

\* call, target absent and required: throw
ExecCallMissing ==
  /\ At("exec", "start", "call")
  /\ CallThrows(heap[frames[Top].node], registry[heap[frames[Top].node].targetAction])
  /\ Observe
  /\ Settle("rejected")
  /\ UNCHANGED <<heap, inputs, planCalls, planLog, execLog, resolved, lastCall, fixed>>

\* a walker that copies the rename table before it looks for the target
ExecCallSkipRenames ==
  /\ At("exec", "start", "call")
  /\ registry[heap[frames[Top].node].targetAction] = NoNode
  /\ ~CallThrows(heap[frames[Top].node], registry[heap[frames[Top].node].targetAction])
  /\ inputs' = ApplyRename(inputs, heap[frames[Top].node].inputs)
  /\ Observe
  /\ Settle("fulfilled")
  /\ UNCHANGED <<heap, planCalls, planLog, execLog, resolved, lastCall, fixed>>

\* call, target absent and optional: nothing to do
ExecCallSkip ==
  /\ At("exec", "start", "call")
  /\ registry[heap[frames[Top].node].targetAction] = NoNode
  /\ ~CallThrows(heap[frames[Top].node], registry[heap[frames[Top].node].targetAction])
  /\ Observe
  /\ Settle("fulfilled")
  /\ UNCHANGED <<heap, inputs, planCalls, planLog, execLog, resolved, lastCall, fixed>>

\* call, target present: rename, then await executeAction(target)
ExecCallDescend ==
  /\ At("exec", "start", "call")
  /\ LET action == heap[frames[Top].node]
         target == registry[action.targetAction]
     IN /\ target # NoNode
        /\ ~CallThrows(action, target)
        /\ inputs' = ApplyRename(inputs, action.inputs)
        /\ lastCall' = [call |-> frames[Top].node, pre |-> inputs]
        /\ Invoke("exec", target, Top, frames[Top].node, "await", 0)
  /\ Observe
  /\ UNCHANGED <<heap, microtasks, planCalls, planLog, execLog, resolved, unhandled, fixed>>

\* call: the awaited target settled; a rejection is rethrown
ExecCallResume ==
  /\ At("exec", "resume", "call")
  /\ Settle(frames[frames[Top].child].status)
  /\ UNCHANGED <<heap, inputs, planCalls, planLog, execLog, resolved, lastCall, observed,
                 fixed>>

\* group: the children are taken as the array holds them, whatever the mode
ExecGroup ==
  /\ At("exec", "start", "group")
  /\ frames' = [frames EXCEPT ![Top].pc = "loop", ![Top].i = 1]
  /\ Observe
  /\ UNCHANGED <<heap, stack, microtasks, inputs, planCalls, planLog, execLog, resolved,
                 lastCall, unhandled, fixed>>

\* group: for (const act of action.actions) await executeAction(..., act, ...)
ExecGroupNext ==
  /\ At("exec", "loop", "group")
  /\ LET action == heap[frames[Top].node]
         i == frames[Top].i
     IN IF i <= Len(action.actions)
          THEN /\ Invoke("exec", action.actions[i], Top, NoNode, "await", i)
               /\ UNCHANGED <<microtasks, unhandled>>
          ELSE Settle("fulfilled")
  /\ UNCHANGED <<heap, inputs, planCalls, planLog, execLog, resolved, lastCall, observed,
                 fixed>>

\* group: the awaited child settled; a rejection is rethrown out of the loop
ExecGroupResume ==
  /\ At("exec", "resume", "group")
  /\ IF frames[frames[Top].child].status = "rejected"
       THEN Settle("rejected")
       ELSE /\ frames' = [frames EXCEPT ![Top].pc = "loop", ![Top].i = @ + 1]
            /\ UNCHANGED <<stack, microtasks, unhandled>>
  /\ UNCHANGED <<heap, inputs, planCalls, planLog, execLog, resolved, lastCall, observed,
                 fixed>>

\* ------------------------------------------------------------------ test()
BuildDone == pc = "build" /\ bi[1] > Len(resources)
\* the action a run starts from: fx.deploy where the registry holds it,
\* teamsfx-solution.provision as in test() otherwise
RootAction ==
  IF registry[DeployName] # NoNode THEN registry[DeployName] ELSE registry[RootName]

\* await planAction(context, inputs, rootAction, actionMap)
StartPlan ==
  /\ BuildDone
  /\ runMode \in {"plan", "planexec"}
  /\ pc' = "planning"
  /\ frames' = Append(frames, NewFrame("plan", RootAction, Driver, NoNode))
  /\ stack' = <<Len(frames) + 1>>
  /\ UNCHANGED <<heap, heap0, resources, registry, inputs, runMode, bi, microtasks,
                 planCalls, planLog, execLog, resolved, lastCall, observed, planResult,
                 execResult, unhandled, pvars, cvars, tvars, svars>>

\* await executeAction(context, inputs, rootAction, actionMap): the statement
\* test() holds after the plan, run alone or after it
StartExec ==
  /\ \/ BuildDone /\ runMode = "exec"
     \/ pc = "planned"
  /\ stack = <<>>
  /\ pc' = "executing"
  /\ frames' = Append(frames, NewFrame("exec", RootAction, Driver, NoNode))
  /\ stack' = <<Len(frames) + 1>>
  /\ UNCHANGED <<heap, heap0, resources, registry, inputs, runMode, bi, microtasks,
                 planCalls, planLog, execLog, resolved, lastCall, observed, planResult,
                 execResult, unhandled, pvars, cvars, tvars, svars>>

\* the root invocation of the traversal in progress
RootFrame(fn) == CHOOSE f \in DOMAIN frames : frames[f].fn = fn /\ frames[f].awaiter = Driver

\* test() resumes after its await; a rejection ends test(), which nobody awaits
DriverResume ==
  /\ stack = <<>>
  /\ microtasks # <<>>
  /\ Head(microtasks) = Driver
  /\ microtasks' = Tail(microtasks)
  /\ \/ /\ pc = "planning"
        /\ planResult' = frames[RootFrame("plan")].status
        /\ pc' = IF planResult' = "fulfilled" /\ runMode = "planexec" THEN "planned" ELSE "done"
        /\ unhandled' = IF planResult' = "rejected" THEN unhandled + 1 ELSE unhandled
        /\ UNCHANGED execResult
     \/ /\ pc = "executing"
        /\ execResult' = frames[RootFrame("exec")].status
        /\ pc' = "done"
        /\ unhandled' = IF execResult' = "rejected" THEN unhandled + 1 ELSE unhandled
        /\ UNCHANGED planResult
  /\ UNCHANGED <<heap, heap0, resources, registry, inputs, runMode, bi, frames, stack,
                 planCalls, planLog, execLog, resolved, lastCall, observed, pvars, cvars, tvars, svars>>

Next ==
  \/ RegisterAction
  \/ StartPlan
  \/ StartExec
  \/ DriverResume
  \/ RunMicrotask
  \/ AwaitChild
  \/ PlanFunction
  \/ PlanFunctionLog
  \/ PlanShell
  \/ PlanCallMissing
  \/ PlanCallSkip
  \/ PlanCallDescend
  \/ PlanCallReturn
  \/ PlanGroup
  \/ PlanGroupNext
  \/ PlanGroupResume
  \/ ExecFunction
  \/ ExecFunctionDone
  \/ ExecShell
  \/ ExecCallMissing
  \/ ExecCallSkip
  \/ ExecCallDescend
  \/ ExecCallResume
  \/ ExecGroup
  \/ ExecGroupNext
  \/ ExecGroupResume

Spec == Init /\ [][Next]_vars

\* the same engine started on every graph, cyclic ones included; the event
\* loop never idles while an invocation can run or a continuation is queued
TerminationInit ==
  /\ \/ ActionGraphs
     \/ /\ heap \in CycleGraphs
        /\ resources = Resources
  /\ Start
TerminationSpec == TerminationInit /\ [][Next]_vars /\ WF_vars(Next)

\* the leaves executeAction reaches from a node, in the order it reaches them,
\* when nothing throws: the children of a group as the array holds them
RECURSIVE ExecLeaves(_, _, _)
ExecLeaves(h, actions, n) ==
  LET RECURSIVE Each(_, _)
      Each(children, i) ==
        IF i > Len(children) THEN <<>>
        ELSE ExecLeaves(h, actions, children[i]) \o Each(children, i + 1)
  IN CASE h[n].type \in {"function", "shell"} -> <<n>>
       [] h[n].type = "call" ->
            IF actions[h[n].targetAction] = NoNode THEN <<>>
            ELSE ExecLeaves(h, actions, actions[h[n].targetAction])
       [] OTHER -> Each(h[n].actions, 1)

\* ====================================================================
\* TeamsBotSsoPrompt (dotnet-sdk): constructor, BeginDialogAsync,
\* ContinueDialogAsync, one conversation and its clock
\* ====================================================================
\* the clock runs from 0 to MaxClock; a conversation takes at most MaxTurns turns
MaxClock == 4
MaxTurns == 3

\* dialog State without the key "expires"
NoExpiry == -1

\* a string is a sequence of characters; a null string reference
NullString == <<"null">>
NullSettings == [null |-> TRUE]
NullOptions == "null"
NoPrompt == [constructed |-> FALSE]
NoToken == <<"none">>
NoActivity == [type |-> "none"]

Msteams == "msteams"
Channels == {Msteams, "not-teams"}

DialogIds == {NullString, <<>>, <<" ">>, <<" ", " ">>, <<"M">>}
Timeouts == {1, 2}
SettingsOptions ==
  {NullSettings} \cup [Timeout : Timeouts, EndOnInvalidMessage : BOOLEAN]
\* IOptions<AuthenticationOptions>: null, one whose Value validates, one whose
\* Value throws OptionsValidationException
AuthenticationOptions == {NullOptions, "valid", "invalid"}

\* Activity.Value of a token exchange invoke: no token, an empty token, a JWT
\* of three segments, a string that is no JWT
SsoTokens == {NullString, <<>>, <<"h", "p", "s">>, <<"x">>}
VerifyStateOperationName == "signin/verifyState"
TokenExchangeOperationName == "signin/tokenExchange"
Activities ==
  {[type |-> "message", name |-> "", token |-> NullString],
   [type |-> "message", name |-> VerifyStateOperationName, token |-> NullString],
   [type |-> "invoke", name |-> VerifyStateOperationName, token |-> NullString],
   [type |-> "event", name |-> "", token |-> NullString]}
    \cup {[type |-> "invoke", name |-> TokenExchangeOperationName, token |-> t] : t \in SsoTokens}

\* a test of the dialog id that accepts every non-null string
IsNull(value) == value = NullString

\* string.IsNullOrWhiteSpace: null, empty, or white-space characters only
IsNullOrWhiteSpace(value) ==
  value = NullString \/ \A i \in 1..Len(value) : value[i] = " "

\* String.IsNullOrEmpty
IsNullOrEmpty(value) == value = NullString \/ value = <<>>

\* the constructor: "ok", or the exception it throws
TeamsBotSsoPrompt(dialogId, settings, authenticationOptions) ==
  IF IsNullOrWhiteSpace(dialogId) THEN "ArgumentNullException"
  ELSE IF settings = NullSettings THEN "ArgumentNullException"
  ELSE IF authenticationOptions = NullOptions THEN "ArgumentNullException"
  ELSE IF authenticationOptions = "invalid" THEN "InvalidConfiguration"
  ELSE "ok"

\* a channel guard that lets every channel through
EnsureAnyChannel(channelId) == "ok"

\* EnsureMsTeamsChannel: "ok", or the code of the ExceptionWithCode it throws
EnsureMsTeamsChannel(channelId) ==
  IF channelId # Msteams THEN "ChannelNotSupported" ELSE "ok"

IsTeamsVerificationInvoke(activity) ==
  activity.type = "message" /\ activity.name = VerifyStateOperationName
IsTokenExchangeRequestInvoke(activity) ==
  activity.type = "invoke" /\ activity.name = TokenExchangeOperationName

\* settings under which an invalid message never ends the prompt
EndOnInvalidMessageNever(settings) == FALSE

\* _settings.EndOnInvalidMessage
EndOnInvalidMessage(settings) == settings.EndOnInvalidMessage

\* new JwtSecurityToken(ssoToken) accepts a compact JWS (three segments) or JWE (five)
JwtSecurityToken(ssoToken) == Len(ssoToken) \in {3, 5}

\* a prompt whose expiry never passes
ExpiredNever(now, expires) == FALSE

\* DateTime.Compare(DateTime.UtcNow, (DateTime)state[PersistedExpires]) > 0
Expired(now, expires) == now > expires

\* ContinueDialogAsync up to its first await: what the turn does next
ContinueDialog(activity, channelId, now, expires, settings) ==
  LET isMessage == activity.type = "message"
      isTimeoutActivityType ==
        isMessage \/ IsTeamsVerificationInvoke(activity) \/ IsTokenExchangeRequestInvoke(activity)
      hasTimedOut == isTimeoutActivityType /\ Expired(now, expires)
  IN IF EnsureMsTeamsChannel(channelId) # "ok" THEN EnsureMsTeamsChannel(channelId)
     ELSE IF hasTimedOut THEN "EndDialog"
     ELSE IF IsTeamsVerificationInvoke(activity) \/ IsTokenExchangeRequestInvoke(activity)
       THEN "RecognizeToken"
     ELSE IF isMessage /\ EndOnInvalidMessage(settings) THEN "EndDialog"
     ELSE "EndOfTurn"

\* RecognizeTokenAsync: the activities it sends and the token it recognizes
RecognizeToken(activity) ==
  IF IsTokenExchangeRequestInvoke(activity)
    THEN IF IsNullOrEmpty(activity.token)
           THEN [sent |-> <<"InvokeResponse BadRequest">>, token |-> NoToken]
         ELSE IF JwtSecurityToken(activity.token)
           THEN [sent |-> <<"InvokeResponse OK">>, token |-> activity.token]
           ELSE [sent |-> <<"InvokeResponse OK", "InvokeResponse PreconditionFailed">>,
                 token |-> NoToken]
  ELSE IF IsTeamsVerificationInvoke(activity)
    THEN [sent |-> <<"OAuthCard", "InvokeResponse OK">>, token |-> NoToken]
    ELSE [sent |-> <<>>, token |-> NoToken]

\* the action engine is not running next to the bot
EngineOff ==
  /\ heap = <<>> /\ heap0 = <<>> /\ resources = <<>> /\ registry = <<>>
  /\ inputs = <<>> /\ runMode = "off" /\ pc = "off" /\ bi = <<>>
  /\ frames = <<>> /\ stack = <<>> /\ microtasks = <<>>
  /\ planCalls = <<>> /\ planLog = <<>> /\ execLog = <<>> /\ resolved = {}
  /\ lastCall = <<>> /\ observed = <<>>
  /\ planResult = "none" /\ execResult = "none" /\ unhandled = 0

PromptInit ==
  /\ EngineOff
  /\ ConfigureOff
  /\ TaskOff
  /\ ScaffoldOff
  /\ ppc = "new"
  /\ ctor = [outcome |-> "none"]
  /\ prompt = NoPrompt
  /\ channel \in Channels
  /\ clock = 0
  /\ dialog = [active |-> FALSE, expires |-> NoExpiry, result |-> NoToken]
  /\ sent = <<>>
  /\ turn = [op |-> "none"]
  /\ turns = 0

\* new TeamsBotSsoPrompt(dialogId, settings, logger, authenticationOptions)
Construct ==
  /\ ppc = "new"
  /\ \E dialogId \in DialogIds, settings \in SettingsOptions,
        authenticationOptions \in AuthenticationOptions :
       LET outcome == TeamsBotSsoPrompt(dialogId, settings, authenticationOptions)
       IN /\ ctor' = [dialogId |-> dialogId, settings |-> settings,
                      authenticationOptions |-> authenticationOptions, outcome |-> outcome]
          /\ prompt' = IF outcome = "ok"
                         THEN [constructed |-> TRUE, settings |-> settings,
                               authenticationOptions |-> authenticationOptions]
                         ELSE NoPrompt
          /\ ppc' = IF outcome = "ok" THEN "idle" ELSE "failed"
  /\ UNCHANGED <<avars, cvars, tvars, svars, channel, clock, dialog, sent, turn, turns>>

\* time passes between turns and while a turn awaits
Tick ==
  /\ ppc \in {"idle", "send", "recognize"}
  /\ clock < MaxClock
  /\ clock' = clock + 1
  /\ UNCHANGED <<avars, cvars, tvars, svars, ppc, ctor, prompt, channel, dialog, sent, turn, turns>>

\* BeginDialogAsync up to its await: the guards, then State["expires"]
BeginDialogAsync ==
  /\ ppc = "idle"
  /\ ~dialog.active
  /\ turns < MaxTurns
  /\ \E dcNull \in BOOLEAN :
       LET thrown == IF dcNull THEN "ArgumentNullException"
                     ELSE EnsureMsTeamsChannel(channel)
       IN /\ turn' = [op |-> "begin", dcNull |-> dcNull, activity |-> NoActivity,
                      outcome |-> IF thrown = "ok" THEN "pending" ELSE thrown,
                      at |-> clock, expires0 |-> dialog.expires]
          /\ dialog' = IF thrown = "ok"
                         THEN [dialog EXCEPT !.expires = clock + prompt.settings.Timeout]
                         ELSE dialog
          /\ ppc' = IF thrown = "ok" THEN "send" ELSE "idle"
  /\ sent' = <<>>
  /\ turns' = turns + 1
  /\ UNCHANGED <<avars, cvars, tvars, svars, ctor, prompt, channel, clock>>

\* await SendOAuthCardToObtainTokenAsync(dc.Context); return EndOfTurn: the
\* prompt stays on the dialog stack
SendOAuthCardToObtainTokenAsync ==
  /\ ppc = "send"
  /\ sent' = Append(sent, "OAuthCard")
  /\ turn' = [turn EXCEPT !.outcome = "EndOfTurn"]
  /\ dialog' = [dialog EXCEPT !.active = TRUE]
  /\ ppc' = "idle"
  /\ UNCHANGED <<avars, cvars, tvars, svars, ctor, prompt, channel, clock, turns>>

\* dc.EndDialogAsync(result): the instance and its State leave the dialog stack
EndDialog(result) == [active |-> FALSE, expires |-> NoExpiry, result |-> result]

\* ContinueDialogAsync on the next activity of the conversation, up to its
\* first await
ContinueDialogAsync ==
  /\ ppc = "idle"
  /\ dialog.active
  /\ turns < MaxTurns
  /\ \E activity \in Activities :
       LET next == ContinueDialog(activity, channel, clock, dialog.expires, prompt.settings)
       IN /\ turn' = [op |-> "continue", dcNull |-> FALSE, activity |-> activity,
                      outcome |-> IF next = "RecognizeToken" THEN "pending" ELSE next,
                      at |-> clock, expires0 |-> dialog.expires]
          /\ dialog' = IF next = "EndDialog" THEN EndDialog(NoToken) ELSE dialog
          /\ ppc' = IF next = "RecognizeToken" THEN "recognize" ELSE "idle"
  /\ sent' = <<>>
  /\ turns' = turns + 1
  /\ UNCHANGED <<avars, cvars, tvars, svars, ctor, prompt, channel, clock>>

\* await RecognizeTokenAsync(dc): end the dialog with the token, or end the turn
RecognizeTokenAsync ==
  /\ ppc = "recognize"
  /\ LET recognized == RecognizeToken(turn.activity)
         succeeded == recognized.token # NoToken
     IN /\ sent' = sent \o recognized.sent
        /\ dialog' = IF succeeded THEN EndDialog(recognized.token) ELSE dialog
        /\ turn' = [turn EXCEPT !.outcome = IF succeeded THEN "EndDialog" ELSE "EndOfTurn"]
  /\ ppc' = "idle"
  /\ UNCHANGED <<avars, cvars, tvars, svars, ctor, prompt, channel, clock, turns>>

PromptNext ==
  \/ Construct
  \/ Tick
  \/ BeginDialogAsync
  \/ SendOAuthCardToObtainTokenAsync
  \/ ContinueDialogAsync
  \/ RecognizeTokenAsync

PromptSpec == PromptInit /\ [][PromptNext]_vars

\* ====================================================================
\* fx.preConfigure (fx-core): the function step of fx.provision that copies
\* the endpoint and domain of a hosting resource into the state of a feature
\* ====================================================================
TeamsBot == "teams-bot"
TeamsTab == "teams-tab"
AadApp == "aad-app"
Hostings == {"azure-web-app", "azure-function", "azure-storage"}
EnvNames == {"local", "dev"}

\* envInfo.state[key]: an object with endpoint and domain, or nothing
NoState == [defined |-> FALSE, endpoint |-> Undefined, domain |-> Undefined]
Config(endpoint, domain) == [defined |-> TRUE, endpoint |-> endpoint, domain |-> domain]

\* envInfo.state[hosting] of a provisioned hosting resource
HostingState(hosting) ==
  CASE hosting = "azure-web-app" -> Config("https://web-app", "web-app")
    [] hosting = "azure-function" -> Config("https://function", "function")
    [] hosting = "azure-storage" -> Config("https://storage", "storage")

\* `api://${tabEndpoint}`
ApplicationIdUri(tabEndpoint) == <<"api://", tabEndpoint>>

Component(name, hosting) == [name |-> name, hosting |-> hosting, build |-> FALSE, code |-> ""]

\* the projects: with or without a bot, a tab and an aad app, bot and tab
\* hosted on the same or on different resources
ProjectSettingsOptions ==
  { [components |->
       (IF hasBot THEN <<Component(TeamsBot, botHosting)>> ELSE <<>>)
         \o (IF hasTab THEN <<Component(TeamsTab, tabHosting)>> ELSE <<>>)
         \o (IF hasAad THEN <<Component(AadApp, "")>> ELSE <<>>)] :
      hasBot \in BOOLEAN, hasTab \in BOOLEAN, hasAad \in BOOLEAN,
      botHosting \in {"azure-web-app", "azure-function"},
      tabHosting \in {"azure-storage", "azure-web-app"} }

\* execute of fx.preConfigure, statement by statement; reading .endpoint of a
\* hosting resource that has no state throws
preConfigure(setting, env, ins) ==
  LET teamsBot == getComponent(setting, TeamsBot)
      teamsTab == getComponent(setting, TeamsTab)
      aad == getComponent(setting, AadApp)
      botWrites == teamsBot # NoComponent /\ env.envName # "local"
      botThrows == botWrites /\ ~env.state[teamsBot.hosting].defined
      afterBot ==
        IF botWrites /\ ~botThrows
          THEN [env.state EXCEPT ![TeamsBot] =
                  Config(env.state[teamsBot.hosting].endpoint,
                         env.state[teamsBot.hosting].domain)]
          ELSE env.state
      tabWrites == ~botThrows /\ teamsTab # NoComponent
      tabThrows == tabWrites /\ ~afterBot[teamsTab.hosting].defined
      afterTab ==
        IF tabWrites /\ ~tabThrows
          THEN [afterBot EXCEPT ![TeamsBot] =
                  Config(afterBot[teamsTab.hosting].endpoint,
                         afterBot[teamsTab.hosting].domain)]
          ELSE afterBot
  IN [state |-> afterTab,
      inputs |-> IF tabWrites /\ ~tabThrows /\ aad # NoComponent
                   THEN [ins EXCEPT !.m365ApplicationIdUri =
                           ApplicationIdUri(afterTab[teamsTab.hosting].endpoint)]
                   ELSE ins,
      outcome |-> IF botThrows \/ tabThrows THEN "threw" ELSE "ok"]

EngineAndPromptOff ==
  /\ heap = <<>> /\ heap0 = <<>> /\ resources = <<>> /\ registry = <<>>
  /\ inputs = <<>> /\ runMode = "off" /\ pc = "off" /\ bi = <<>>
  /\ frames = <<>> /\ stack = <<>> /\ microtasks = <<>>
  /\ planCalls = <<>> /\ planLog = <<>> /\ execLog = <<>> /\ resolved = {}
  /\ lastCall = <<>> /\ observed = <<>>
  /\ planResult = "none" /\ execResult = "none" /\ unhandled = 0
  /\ PromptOff

\* a project and an environment in which some hosting resources are provisioned
ConfigureInit ==
  /\ EngineAndPromptOff
  /\ TaskOff
  /\ ScaffoldOff
  /\ cpc = "ready"
  /\ projectSetting \in ProjectSettingsOptions
  /\ \E envName \in EnvNames, provisioned \in SUBSET Hostings :
       envInfo = [envName |-> envName,
                  state |-> [k \in Hostings \cup {TeamsBot} |->
                               IF k \in provisioned THEN HostingState(k) ELSE NoState]]
  /\ cinputs = [m365ApplicationIdUri |-> <<>>]
  /\ coutcome = "none"

\* plan: return ok([])
PreConfigurePlan ==
  /\ cpc = "ready"
  /\ cpc' = "planned"
  /\ UNCHANGED <<avars, pvars, tvars, svars, projectSetting, envInfo, cinputs, coutcome>>

\* execute, planned before or not
PreConfigureExecute ==
  /\ cpc \in {"ready", "planned"}
  /\ LET r == preConfigure(projectSetting, envInfo, cinputs)
     IN /\ envInfo' = [envInfo EXCEPT !.state = r.state]
        /\ cinputs' = r.inputs
        /\ coutcome' = r.outcome
  /\ cpc' = "done"
  /\ UNCHANGED <<avars, pvars, tvars, svars, projectSetting>>

ConfigureNext == PreConfigurePlan \/ PreConfigureExecute
ConfigureSpec == ConfigureInit /\ [][ConfigureNext]_vars

\* ====================================================================
\* runTask (vscode-extension): a promise for the end of a task, settled by the
\* handlers of the VS Code task events through taskEndEventEmitter
\* ====================================================================
TaskIds == {"t1", "t2"}
ExitCodes == {0, 1}
NoExitCode == -1

\* the start of a task is awaited for 30000 ms; the timer is armed, cleared or fired
NewRun ==
  [called |-> FALSE, started |-> FALSE, startListener |-> FALSE, endListener |-> FALSE,
   startTimer |-> "none", promise |-> "none", value |-> NoExitCode, resolveCalls |-> 0]

\* resolve(result.exitCode): a settled promise stays as it is
Resolve(run, exitCode) ==
  IF run.promise = "pending"
    THEN [run EXCEPT !.promise = "resolved", !.value = exitCode,
                     !.resolveCalls = run.resolveCalls + 1]
    ELSE [run EXCEPT !.resolveCalls = run.resolveCalls + 1]

\* taskStartEventEmitter.fire(taskId): the start listener of the run of that id
FireStart(id) ==
  [t \in TaskIds |->
     IF t = id /\ runs[t].startListener
       THEN [runs[t] EXCEPT !.startTimer = IF runs[t].startTimer = "armed" THEN "cleared"
                                            ELSE runs[t].startTimer,
                            !.started = TRUE, !.startListener = FALSE]
       ELSE runs[t]]

\* taskEndEventEmitter.fire({id, name, exitCode}): the end listener of the run of that id
FireEnd(id, exitCode) ==
  [t \in TaskIds |->
     IF t = id /\ runs[t].endListener
       THEN Resolve([runs[t] EXCEPT !.endListener = FALSE], exitCode)
       ELSE runs[t]]

TaskInit ==
  /\ EngineAndPromptOff
  /\ ConfigureOff
  /\ ScaffoldOff
  /\ tasks = [t \in TaskIds |->
                [teamsfxTaskId |-> FALSE, executing |-> FALSE, started |-> FALSE,
                 ended |-> FALSE, processEnded |-> FALSE, exitCode |-> NoExitCode]]
  /\ trackedTasks = {}
  /\ runs = [t \in TaskIds |-> NewRun]

\* runTask(task): the task gets an id, both listeners and the timer are set up
\* and the task is handed to VS Code
RunTask(t) ==
  /\ ~tasks[t].executing
  /\ tasks' = [tasks EXCEPT ![t].teamsfxTaskId = TRUE, ![t].executing = TRUE]
  /\ runs' = [runs EXCEPT ![t] = [NewRun EXCEPT !.called = TRUE, !.startListener = TRUE,
                                                !.endListener = TRUE, !.startTimer = "armed",
                                                !.promise = "pending"]]
  /\ UNCHANGED <<avars, pvars, cvars, svars, trackedTasks>>

\* a task that VS Code executes without runTask: it carries no teamsfxTaskId
ExecuteTask(t) ==
  /\ ~tasks[t].executing
  /\ tasks' = [tasks EXCEPT ![t].executing = TRUE]
  /\ UNCHANGED <<avars, pvars, cvars, svars, trackedTasks, runs>>

\* the 30000 ms have passed
StartTimeout(t) ==
  /\ runs[t].startTimer = "armed"
  /\ runs' = [runs EXCEPT ![t] = IF ~runs[t].started /\ runs[t].promise = "pending"
                                   THEN [runs[t] EXCEPT !.startTimer = "fired",
                                                        !.promise = "rejected"]
                                   ELSE [runs[t] EXCEPT !.startTimer = "fired"]]
  /\ UNCHANGED <<avars, pvars, cvars, svars, tasks, trackedTasks>>

onDidStartTaskHandler(t) ==
  /\ tasks[t].executing /\ ~tasks[t].started
  /\ tasks' = [tasks EXCEPT ![t].started = TRUE]
  /\ IF tasks[t].teamsfxTaskId
       THEN /\ trackedTasks' = trackedTasks \cup {t}
            /\ runs' = FireStart(t)
       ELSE UNCHANGED <<trackedTasks, runs>>
  /\ UNCHANGED <<avars, pvars, cvars, svars>>

onDidEndTaskHandler(t) ==
  /\ tasks[t].started /\ ~tasks[t].ended
  /\ tasks' = [tasks EXCEPT ![t].ended = TRUE]
  /\ IF tasks[t].teamsfxTaskId /\ t \in trackedTasks
       THEN /\ trackedTasks' = trackedTasks \ {t}
            /\ runs' = FireEnd(t, NoExitCode)
       ELSE UNCHANGED <<trackedTasks, runs>>
  /\ UNCHANGED <<avars, pvars, cvars, svars>>

\* the part of the handler that runTask depends on; what follows it reports
\* telemetry and shows terminals
onDidEndTaskProcessHandler(t) ==
  /\ tasks[t].started /\ ~tasks[t].processEnded
  /\ \E exitCode \in ExitCodes :
       /\ tasks' = [tasks EXCEPT ![t].processEnded = TRUE, ![t].exitCode = exitCode]
       /\ IF tasks[t].teamsfxTaskId
            THEN /\ trackedTasks' = trackedTasks \ {t}
                 /\ runs' = FireEnd(t, exitCode)
            ELSE UNCHANGED <<trackedTasks, runs>>
  /\ UNCHANGED <<avars, pvars, cvars, svars>>

TaskNext ==
  \E t \in TaskIds :
    \/ RunTask(t)
    \/ ExecuteTask(t)
    \/ StartTimeout(t)
    \/ onDidStartTaskHandler(t)
    \/ onDidEndTaskHandler(t)
    \/ onDidEndTaskProcessHandler(t)
TaskSpec == TaskInit /\ [][TaskNext]_vars

\* ====================================================================
\* ApiConnectorImpl.scaffold: back up the files of every selected component,
\* scaffold the components concurrently, restore on failure, remove the backup
\* ====================================================================
ComponentTypes == {"bot", "api"}
NoErr == ""
NoBackup == [exists |-> FALSE, env |-> "absent", pkg |-> "absent"]

\* scaffoldInComponent: its three awaited steps, in order
ScaffoldSteps ==
  <<"addSDKDependency", "scaffoldEnvFileToComponent", "scaffoldSampleCodeToComponent">>

\* a Promise.all that is fulfilled as soon as one of its promises is
PromiseAny(status, components) == \E c \in components : status[c] = "done"

\* await Promise.all(components.map(async ...)): fulfilled when every promise is
PromiseAll(status, components) == \A c \in components : status[c] = "done"

\* the step after a step of scaffoldInComponent
NextStep(step) ==
  IF \E i \in 1..(Len(ScaffoldSteps) - 1) : ScaffoldSteps[i] = step
    THEN ScaffoldSteps[(CHOOSE i \in 1..Len(ScaffoldSteps) : ScaffoldSteps[i] = step) + 1]
    ELSE "done"

\* what a step of scaffoldInComponent writes
Written(files, step) ==
  CASE step = "addSDKDependency" -> [files EXCEPT !.pkg = "new"]
    [] step = "scaffoldEnvFileToComponent" -> [files EXCEPT !.env = "new"]
    [] OTHER -> [files EXCEPT !.sample = TRUE]

\* fs.copy(backup folder, component folder, {overwrite: true}): the files the
\* backup holds replace those of the folder, the others stay
Restored(files, saved) ==
  [files EXCEPT !.env = IF saved.env = "absent" THEN files.env ELSE saved.env,
                !.pkg = IF saved.pkg = "absent" THEN files.pkg ELSE saved.pkg]

ScaffoldInit ==
  /\ EngineAndPromptOff
  /\ ConfigureOff
  /\ TaskOff
  /\ spc = "backup"
  /\ selected \in (SUBSET ComponentTypes) \ {{}}
  /\ folder \in [ComponentTypes -> [env : {"absent", "old"}, pkg : {"absent", "old"},
                                     sample : {FALSE}]]
  /\ backup = [c \in ComponentTypes |-> NoBackup]
  /\ scaffolding = [c \in ComponentTypes |-> "idle"]
  /\ restoring = [c \in ComponentTypes |-> "idle"]
  /\ err = NoErr

\* backupExistingFiles of one component; when the last one is done the try
\* block starts scaffoldInComponent for every selected component
backupExistingFiles(c) ==
  /\ spc = "backup"
  /\ c \in selected
  /\ ~backup[c].exists
  /\ backup' = [backup EXCEPT ![c] = [exists |-> TRUE, env |-> folder[c].env,
                                      pkg |-> folder[c].pkg]]
  /\ IF PromiseAll([d \in ComponentTypes |->
                      IF d = c \/ backup[d].exists THEN "done" ELSE "todo"], selected)
       THEN /\ spc' = "try"
            /\ scaffolding' = [d \in ComponentTypes |->
                                 IF d \in selected THEN Head(ScaffoldSteps) ELSE "idle"]
       ELSE UNCHANGED <<spc, scaffolding>>
  /\ UNCHANGED <<avars, pvars, cvars, tvars, selected, folder, restoring, err>>

\* one awaited step of scaffoldInComponent ends, with its file written or with
\* an error. The first error rejects the Promise.all of the try block and the
\* catch block starts; the other components keep scaffolding.
scaffoldInComponent(c) ==
  /\ \E i \in 1..Len(ScaffoldSteps) : ScaffoldSteps[i] = scaffolding[c]
  /\ \E ok \in BOOLEAN :
       LET after == [scaffolding EXCEPT ![c] = IF ok THEN NextStep(scaffolding[c])
                                                ELSE "failed"]
       IN /\ scaffolding' = after
          /\ folder' = IF ok THEN [folder EXCEPT ![c] = Written(folder[c], scaffolding[c])]
                        ELSE folder
          /\ IF spc = "try" /\ ~ok
               THEN /\ spc' = "catch"
                    /\ err' = c
                    /\ restoring' = [d \in ComponentTypes |->
                                       IF d \in selected THEN "copy" ELSE "idle"]
               ELSE IF spc = "try" /\ PromiseAll(after, selected)
                 THEN /\ spc' = "finally"
                      /\ UNCHANGED <<err, restoring>>
                 ELSE UNCHANGED <<spc, err, restoring>>
  /\ UNCHANGED <<avars, pvars, cvars, tvars, selected, backup>>

\* the catch block for one component: fs.copy, then removeSampleFilesWhenRestore;
\* when every component is restored the error is reported and the finally
\* block starts
restore(c) ==
  /\ spc = "catch"
  /\ restoring[c] \in {"copy", "removeSample"}
  /\ LET after == [restoring EXCEPT ![c] = IF restoring[c] = "copy" THEN "removeSample"
                                            ELSE "done"]
     IN /\ restoring' = after
        /\ folder' = [folder EXCEPT ![c] = IF restoring[c] = "copy"
                                             THEN Restored(folder[c], backup[c])
                                             ELSE [folder[c] EXCEPT !.sample = FALSE]]
        /\ spc' = IF PromiseAll(after, selected) THEN "finally" ELSE spc
  /\ UNCHANGED <<avars, pvars, cvars, tvars, selected, backup, scaffolding, err>>

\* the finally block for one component: removeFileIfExist(backup folder); when
\* every folder is removed scaffold returns, or throws the error it caught
removeFileIfExist(c) ==
  /\ spc = "finally"
  /\ c \in selected
  /\ backup[c].exists
  /\ backup' = [backup EXCEPT ![c] = NoBackup]
  /\ spc' = IF PromiseAll([d \in ComponentTypes |->
                             IF d = c \/ ~backup[d].exists THEN "done" ELSE "todo"], selected)
              THEN IF err = NoErr THEN "returned" ELSE "thrown"
              ELSE spc
  /\ UNCHANGED <<avars, pvars, cvars, tvars, selected, folder, scaffolding, restoring, err>>

ScaffoldNext ==
  \E c \in ComponentTypes :
    \/ backupExistingFiles(c)
    \/ scaffoldInComponent(c)
    \/ restore(c)
    \/ removeFileIfExist(c)
ScaffoldSpec == ScaffoldInit /\ [][ScaffoldNext]_vars

\* ====================================================================
\* Properties
\* ====================================================================
\* test() has ended and no promise job is left
Quiescent == pc = "done" /\ stack = <<>> /\ microtasks = <<>>

\* the resolver as specified: own priority if set, else the priority of a
\* call's registered target if set, else the default
SpecifiedPriority(action, actions) ==
  IF action.priority # NoPriority THEN action.priority
  ELSE IF /\ action.type = "call"
          /\ actions[action.targetAction] # NoNode
          /\ heap0[actions[action.targetAction]].priority # NoPriority
       THEN heap0[actions[action.targetAction]].priority
       ELSE P3

\* position of child n in group g as declared
DeclaredIndex(g, n) == CHOOSE i \in 1..Len(heap0[g].actions) : heap0[g].actions[i] = n

IsSequential(n) == heap0[n].type = "group" /\ heap0[n].mode \in {"", "sequential"}
RequiredMissing(n) ==
  heap0[n].type = "call" /\ heap0[n].required /\ registry[heap0[n].targetAction] = NoNode
OptionalMissing(n) ==
  heap0[n].type = "call" /\ ~heap0[n].required /\ registry[heap0[n].targetAction] = NoNode
ChildFrames(g) == {c \in DOMAIN frames : frames[c].awaiter = g}

\* C1: whenever Execute Walker has invoked two children of a sequential group,
\* the one invoked first has the lower resolved priority, or the same resolved
\* priority and the earlier declared position.
C1_ExecuteInPriorityOrder ==
  \A g \in DOMAIN frames :
    (frames[g].fn = "exec" /\ IsSequential(frames[g].node)) =>
      \A c \in ChildFrames(g), d \in ChildFrames(g) :
        c < d =>
          LET pc1 == SpecifiedPriority(heap0[frames[c].node], registry)
              pd == SpecifiedPriority(heap0[frames[d].node], registry)
          IN \/ pc1 < pd
             \/ /\ pc1 = pd
                /\ DeclaredIndex(frames[g].node, frames[c].node)
                     < DeclaredIndex(frames[g].node, frames[d].node)

\* C2: once Execute Walker has processed a required call whose target is not
\* registered, that invocation has failed, no leaf is executed and no further
\* action is visited by Execute Walker, and the traversal reports failure.
C2_RequiredMissingFailsFast ==
  \A f \in DOMAIN frames :
    (frames[f].fn = "exec" /\ RequiredMissing(frames[f].node) /\ frames[f].pc # "start") =>
      /\ frames[f].status = "rejected"
      /\ Len(execLog) = frames[f].execAt
      /\ \A f2 \in DOMAIN frames : f2 > f => frames[f2].fn # "exec"
      /\ execResult # "fulfilled"
      /\ (pc = "done" => execResult = "rejected")

\* a required call with an unregistered target, nested in a registered group
\* under the root, has failed the traversal; its later sibling and the later
\* sibling of the enclosing call were never executed
C2_Witness ==
  /\ pc = "done"
  /\ execResult = "rejected"
  /\ \E f \in DOMAIN frames :
       /\ frames[f].fn = "exec" /\ RequiredMissing(frames[f].node) /\ frames[f].node = 8
       /\ \A i \in 1..Len(execLog) : execLog[i] \notin {9, 4}

\* C3: the step of either walker that processes an optional call whose target
\* is not registered ends that invocation normally and changes neither the
\* console output, the bag, the graph nor the set of invocations; and the group
\* that awaited it moves on to its next child.
C3_OptionalMissingIsNoOp ==
  [][ /\ (stack # <<>> /\ frames[Top].pc = "start" /\ OptionalMissing(frames[Top].node)) =>
          /\ frames'[Top].status = "fulfilled"
          /\ Len(frames') = Len(frames)
          /\ UNCHANGED <<inputs, heap, planCalls, planLog, execLog, unhandled>>
      /\ (/\ stack # <<>> /\ frames[Top].pc = "resume"
          /\ heap0[frames[Top].node].type = "group"
          /\ OptionalMissing(frames[frames[Top].child].node)) =>
          /\ frames'[Top].pc = "loop"
          /\ frames'[Top].i = frames[Top].i + 1 ]_vars

\* in one run, Plan Walker and Execute Walker have each gone past an optional
\* call with an unregistered target and invoked a later sibling of it
C3_Witness ==
  \A fn \in {"plan", "exec"} :
    \E g \in DOMAIN frames :
      /\ frames[g].fn = fn
      /\ \E c \in ChildFrames(g), d \in ChildFrames(g) :
           /\ c < d
           /\ OptionalMissing(frames[c].node)
           /\ frames[c].status = "fulfilled"
           /\ heap0[frames[d].node].type = "function"
           /\ frames[d].status = "fulfilled"

\* C4: once Execute Walker has invoked a function action whose execute callback
\* returns an error result, no other leaf is executed and the traversal does
\* not report success.
C4_ExecuteErrorPropagates ==
  \A f \in DOMAIN frames :
    (/\ frames[f].fn = "exec" /\ heap0[frames[f].node].type = "function"
     /\ heap0[frames[f].node].fails /\ frames[f].pc # "start") =>
      /\ Len(execLog) = frames[f].execAt + 1
      /\ execResult # "fulfilled"

\* C5 (as claimed): for every entry {local: source} of the rename table of a
\* call, the target, when entered, sees under local the value the bag held
\* under source before the call.
C5_RenameEveryEntry ==
  \A n \in 1..Len(observed) :
    LET o == observed[n]
        table == heap0[o.call].inputs
    IN \A j \in 1..Len(table) : o.seen[table[j][1]] = o.pre[table[j][2]]

\* C5 (amended): the same, for every entry whose source key is not the local
\* key of an earlier entry of the same table.
C5_RenameUnshadowedEntry ==
  \A n \in 1..Len(observed) :
    LET o == observed[n]
        table == heap0[o.call].inputs
    IN \A j \in 1..Len(table) :
         (\A i \in 1..(j - 1) : table[i][1] # table[j][2]) =>
           o.seen[table[j][1]] = o.pre[table[j][2]]

\* a function target was entered, by each walker, through a call whose rename
\* put a value under a key that held another value before the call
C5_Witness ==
  \A fn \in {"plan", "exec"} :
    \E n \in 1..Len(observed) :
      /\ observed[n].fn = fn
      /\ heap0[observed[n].target].type = "function"
      /\ heap0[observed[n].call].inputs # <<>>
      /\ observed[n].pre["k3"] # observed[n].seen["k3"]
      /\ observed[n].seen["k3"] # Undefined

\* position of the first occurrence of node n in a log, 0 when absent
FirstAt(log, n) ==
  IF \E i \in 1..Len(log) : log[i] = n
    THEN CHOOSE i \in 1..Len(log) : log[i] = n /\ \A j \in 1..(i - 1) : log[j] # n
    ELSE 0

\* C6: when Plan Walker and then Execute Walker have run to the end over a
\* graph of sequential groups and calls, the plan lines were recorded in the
\* order in which the leaves were executed.
C6_PlanOrderIsExecuteOrder ==
  (/\ Quiescent /\ runMode = "planexec" /\ execResult = "fulfilled"
   /\ \A n \in DOMAIN heap0 : heap0[n].type = "group" => IsSequential(n)) =>
    planLog = execLog

\* C7: Execute Walker run after Plan Walker executes the leaves in the order in
\* which Execute Walker executes them on the graph as the resources built it,
\* which is the order of a run that does not plan first.
C7_ExecuteIndependentOfPlan ==
  (pc = "done" /\ execResult = "fulfilled") =>
    execLog = ExecLeaves(heap0, registry, RootAction)

\* C8: in the sequential group [call a.x, call a.y], with a.x registered without
\* a priority and a.y registered with priority P1 and neither call carrying a
\* priority, Execute Walker executes a.y before a.x.
C8_CallOrderedByTargetPriority ==
  (/\ pc = "done" /\ execResult = "fulfilled"
   /\ IsSequential(RootAction)
   /\ heap0[2].type = "call" /\ heap0[2].targetAction = "a.x"
   /\ heap0[3].type = "call" /\ heap0[3].targetAction = "a.y"
   /\ heap0[2].priority = NoPriority /\ heap0[3].priority = NoPriority
   /\ registry["a.x"] = 5 /\ heap0[5].priority = NoPriority
   /\ registry["a.y"] = 6 /\ heap0[6].priority = P1) =>
    FirstAt(execLog, 6) < FirstAt(execLog, 5)

\* C9: every priority the resolver has returned is the action's own priority
\* when one is set, P0 included; else, for a call whose registered target has a
\* priority set, P0 included, the target's; else the default 3.
C9_ResolverAsSpecified ==
  \A r \in resolved : r[2] = SpecifiedPriority(heap0[r[1]], registry)

\* the actions the resources return, flattened in registration order
RECURSIVE Flatten(_)
Flatten(lists) == IF lists = <<>> THEN <<>> ELSE Head(lists) \o Flatten(Tail(lists))

\* the last contributed action of a name, NoNode when there is none
LastNamed(name) ==
  LET all == Flatten(resources)
      at == {i \in 1..Len(all) : heap0[all[i]].name = name}
  IN IF at = {} THEN NoNode
     ELSE all[CHOOSE i \in at : \A j \in at : j <= i]

\* C10: once the registry is built, every name maps to the last action
\* contributed under it, and every call that descends enters that action.
C10_LastRegisteredWins ==
  (pc # "build" \/ BuildDone) =>
    /\ \A name \in Names : registry[name] = LastNamed(name)
    /\ \A f \in DOMAIN frames :
         frames[f].via # NoNode =>
           frames[f].node = LastNamed(heap0[frames[f].via].targetAction)

\* resource "a" contributed two actions named a.x, and a call to a.x has
\* entered the second of them
C10_Witness ==
  /\ heap0[5].name = "a.x" /\ heap0[6].name = "a.x"
  /\ registry["a.x"] = 6
  /\ \E f \in DOMAIN frames :
       /\ frames[f].via # NoNode
       /\ heap0[frames[f].via].targetAction = "a.x"
       /\ frames[f].node = 6
       /\ frames[f].status = "fulfilled"

IsParallel(n) == heap0[n].type = "group" /\ heap0[n].mode = "parallel"

\* C11: whenever an Execute Walker invocation on a parallel group is suspended
\* waiting for a child that has not completed, every child of the group has
\* already been started.
C11_ParallelStartsAllChildren ==
  \A g \in DOMAIN frames :
    (frames[g].fn = "exec" /\ IsParallel(frames[g].node) /\ frames[g].status = "suspended") =>
      Cardinality(ChildFrames(g)) = Len(heap0[frames[g].node].actions)

\* an invocation of Execute Walker that has failed: it threw, or it is the
\* invocation of a function whose execute callback returned an error result
ExecFailed(f) ==
  /\ frames[f].fn = "exec"
  /\ \/ frames[f].status = "rejected"
     \/ /\ heap0[frames[f].node].type = "function"
        /\ heap0[frames[f].node].fails
        /\ frames[f].pc = "end"

\* C12: once an Execute Walker invocation on a parallel group has ended, it has
\* ended in failure if one of its children failed, and normally only if every
\* child was started and ended normally.
C12_ParallelGroupFailsWithChild ==
  \A g \in DOMAIN frames :
    (frames[g].fn = "exec" /\ IsParallel(frames[g].node) /\ Settled(g)) =>
      /\ (\E c \in ChildFrames(g) : ExecFailed(c)) => frames[g].status = "rejected"
      /\ frames[g].status = "fulfilled" =>
           /\ Cardinality(ChildFrames(g)) = Len(heap0[frames[g].node].actions)
           /\ \A c \in ChildFrames(g) : ~ExecFailed(c)

\* C13: no promise of a walker is ever rejected towards the caller of the
\* engine: the root invocation of planAction and of executeAction never ends
\* by a throw, and no rejection is left unhandled.
C13_NoExceptionEscapes ==
  /\ \A f \in DOMAIN frames : frames[f].awaiter = Driver => frames[f].status # "rejected"
  /\ unhandled = 0

\* C14: no step of a Plan Walker invocation executes a leaf: the record of
\* executed leaves (execute callbacks invoked, shell lines of Execute Walker)
\* is left as it was, and no key of the bag receives the output of an execute
\* callback; a run that only plans ends with no leaf executed.
C14_PlanDoesNoWork ==
  [][ (stack # <<>> /\ frames[Top].fn = "plan") =>
        /\ execLog' = execLog
        /\ \A k \in Keys : inputs'[k] = "executed" => inputs[k] = "executed" ]_vars

\* a run that only plans has ended normally after invoking the plan callback
\* of a function that writes the bag and after recording the line of a shell
\* command, with no leaf executed
C14_Witness ==
  /\ runMode = "plan" /\ Quiescent /\ planResult = "fulfilled"
  /\ \E i \in 1..Len(planLog) : heap0[planLog[i]].type = "shell"
  /\ \E i \in 1..Len(planCalls) : heap0[planCalls[i]].type = "function"
  /\ execLog = <<>>

\* C15: in every state of a run, every action node has the fields it was built
\* with, the order of the children of every group included.
C15_NodesImmutable == heap = heap0

\* the invocation of the call through which a target was entered
CallerOf(t) == CHOOSE c \in DOMAIN frames : frames[c].child = t /\ frames[c].node = frames[t].via

\* C19: in Plan Walker, the invocation on a call's target has completed, and
\* so has every invocation made on the target's descendants, before a later
\* sibling of the call is planned; and once the plan traversal has reported
\* its result, no invocation of Plan Walker is still unfinished.
C19_PlanAwaitsTarget ==
  /\ \A t \in DOMAIN frames :
       (frames[t].fn = "plan" /\ frames[t].via # NoNode) =>
         \A d \in DOMAIN frames :
           (d > t /\ frames[d].awaiter = frames[CallerOf(t)].awaiter
                  /\ frames[CallerOf(t)].awaiter # Detached) => Settled(t)
  /\ planResult # "none" => \A f \in DOMAIN frames : frames[f].fn = "plan" => Settled(f)

\* C20: once Plan Walker has processed a required call whose target is not
\* registered, anywhere in the graph, the plan traversal does not report
\* success.
C20_PlanRequiredMissingFails ==
  \A f \in DOMAIN frames :
    (frames[f].fn = "plan" /\ RequiredMissing(frames[f].node) /\ frames[f].pc # "start") =>
      planResult # "fulfilled"

\* C16: a constructor call with an empty dialog id, with null settings or with
\* null authentication options has thrown ArgumentNullException, and no prompt
\* exists afterwards.
C16_ConstructorRejectsNull ==
  (/\ ctor.outcome # "none"
   /\ \/ ctor.dialogId = <<>>
      \/ ctor.settings = NullSettings
      \/ ctor.authenticationOptions = NullOptions) =>
    /\ ctor.outcome = "ArgumentNullException"
    /\ prompt = NoPrompt
    /\ ppc = "failed"

\* the constructor was called with a dialog id and settings that pass its
\* guards and with null authentication options, and has thrown
C16_Witness ==
  /\ ctor.outcome = "ArgumentNullException"
  /\ ctor.dialogId = <<"M">>
  /\ ctor.settings # NullSettings
  /\ ctor.authenticationOptions = NullOptions
  /\ prompt = NoPrompt

\* C17: a BeginDialogAsync call with a null dialog context has thrown
\* ArgumentNullException, and one on a channel other than MS Teams has thrown
\* ExceptionWithCode ChannelNotSupported; after either, the dialog state holds
\* the expiry it held before the call (none), no activity was sent in the
\* turn, and the prompt is not on the dialog stack.
C17_BeginDialogFailsFirst ==
  turn.op = "begin" =>
    /\ turn.dcNull => turn.outcome = "ArgumentNullException"
    /\ (~turn.dcNull /\ channel # Msteams) => turn.outcome = "ChannelNotSupported"
    /\ (turn.dcNull \/ channel # Msteams) =>
         /\ dialog.expires = turn.expires0
         /\ dialog.expires = NoExpiry
         /\ sent = <<>>
         /\ ~dialog.active

\* BeginDialogAsync was called with a dialog context on a channel other than
\* MS Teams, after time had passed, and has thrown ChannelNotSupported
C17_Witness ==
  /\ turn.op = "begin"
  /\ ~turn.dcNull
  /\ channel # Msteams
  /\ turn.outcome = "ChannelNotSupported"
  /\ clock > 0

\* C18: a ContinueDialogAsync call made, before the expiry had passed, on a
\* message activity that is not a sign-in verification has ended the dialog
\* without a token when EndOnInvalidMessage is true, and has ended the turn
\* with the prompt still active, its expiry kept and nothing sent, when
\* EndOnInvalidMessage is false.
C18_InvalidMessageEndsOrIsIgnored ==
  (/\ turn.op = "continue"
   /\ turn.activity.type = "message"
   /\ turn.activity.name # VerifyStateOperationName
   /\ turn.at <= turn.expires0) =>
    IF prompt.settings.EndOnInvalidMessage
      THEN /\ turn.outcome = "EndDialog"
           /\ ~dialog.active
           /\ dialog.result = NoToken
      ELSE /\ turn.outcome = "EndOfTurn"
           /\ dialog.active
           /\ dialog.expires = turn.expires0
           /\ sent = <<>>

\* with EndOnInvalidMessage true, a message that is not part of the sign-in
\* arrived at the very instant of the expiry and ended the dialog
C18_Witness ==
  /\ turn.op = "continue"
  /\ turn.activity.type = "message"
  /\ turn.activity.name # VerifyStateOperationName
  /\ turn.at = turn.expires0
  /\ prompt.settings.EndOnInvalidMessage
  /\ turn.outcome = "EndDialog"
  /\ ~dialog.active

\* C21: once an Execute Walker invocation on a parallel group has ended with
\* one of its children failed, every child of the group has been started and
\* has ended.
C21_ParallelSiblingsAllRun ==
  \A g \in DOMAIN frames :
    (/\ frames[g].fn = "exec" /\ IsParallel(frames[g].node)
     /\ frames[g].status \in {"fulfilled", "rejected"}
     /\ \E c \in ChildFrames(g) : ExecFailed(c)) =>
      /\ Cardinality(ChildFrames(g)) = Len(heap0[frames[g].node].actions)
      /\ \A c \in ChildFrames(g) : frames[c].status \in {"fulfilled", "rejected"}

\* invocation f was made, directly or through groups and calls, by invocation c
RECURSIVE Within(_, _)
Within(f, c) ==
  \/ f = c
  \/ /\ f > c
     /\ frames[f].awaiter > 0
     /\ Within(frames[f].awaiter, c)

\* C22: in Execute Walker, whenever a sequential group has started a child,
\* every child it started earlier, and every invocation made within such a
\* child, has ended.
C22_SequentialChildrenDoNotOverlap ==
  \A g \in DOMAIN frames :
    (frames[g].fn = "exec" /\ IsSequential(frames[g].node)) =>
      \A c \in ChildFrames(g), d \in ChildFrames(g) :
        c < d =>
          \A f \in DOMAIN frames :
            (frames[f].fn = "exec" /\ Within(f, c)) =>
              frames[f].status \in {"fulfilled", "rejected"}

\* Execute Walker has gone through the sequential root: its first child, a call
\* to the group b.x, ran both leaves of the group before the second child of
\* the root was started
C22_Witness ==
  /\ pc = "done" /\ execResult = "fulfilled"
  /\ IsSequential(RootAction)
  /\ \E g \in DOMAIN frames, c \in DOMAIN frames, d \in DOMAIN frames :
       /\ frames[g].fn = "exec" /\ frames[g].node = RootAction
       /\ c \in ChildFrames(g) /\ d \in ChildFrames(g) /\ c < d
       /\ heap0[frames[c].node].type = "call"
       /\ Cardinality({f \in DOMAIN frames : Within(f, c)}) >= 4

\* C23: once Plan Walker has visited a sequential group, the children list of
\* the group is a permutation of the declared list, in ascending order of
\* resolved priority, children of equal resolved priority in declared order.
C23_PlanSortsSequentialGroup ==
  \A g \in DOMAIN frames :
    (frames[g].fn = "plan" /\ IsSequential(frames[g].node) /\ frames[g].pc # "start") =>
      LET n == frames[g].node
          now == heap[n].actions
          before == heap0[n].actions
          key(i) == SpecifiedPriority(heap0[now[i]], registry)
      IN /\ Len(now) = Len(before)
         /\ \A i \in 1..Len(before) :
              Cardinality({j \in 1..Len(now) : now[j] = before[i]}) = 1
         /\ \A i \in 1..Len(now), j \in 1..Len(now) :
              i < j => \/ key(i) < key(j)
                       \/ /\ key(i) = key(j)
                          /\ DeclaredIndex(n, now[i]) < DeclaredIndex(n, now[j])

\* C24: once Plan Walker has visited a parallel group, the children list of
\* the group is the declared list, and the children it has planned were
\* planned in declared order.
C24_PlanKeepsParallelOrder ==
  \A g \in DOMAIN frames :
    (frames[g].fn = "plan" /\ IsParallel(frames[g].node)) =>
      /\ heap[frames[g].node].actions = heap0[frames[g].node].actions
      /\ \A c \in ChildFrames(g), d \in ChildFrames(g) :
           c < d => DeclaredIndex(frames[g].node, frames[c].node)
                      < DeclaredIndex(frames[g].node, frames[d].node)

\* Plan Walker has planned the three children of a parallel group declared
\* with descending priorities
C24_Witness ==
  /\ planResult = "fulfilled"
  /\ IsParallel(RootAction)
  /\ heap0[2].priority > heap0[3].priority /\ heap0[3].priority > heap0[4].priority
  /\ heap0[4].priority > P0
  /\ planLog = <<2, 3, 4>>

\* number of occurrences of node n in a log
Count(log, n) == Cardinality({i \in 1..Len(log) : log[i] = n})

\* C28: the execute callback of a function action has been invoked exactly
\* once for each invocation of Execute Walker that has gone past the start of
\* that action, whether the callback returns an error or not.
C28_ExecuteOncePerVisit ==
  \A n \in DOMAIN heap0 :
    heap0[n].type = "function" =>
      Count(execLog, n) =
        Cardinality({f \in DOMAIN frames :
                       frames[f].fn = "exec" /\ frames[f].node = n /\ frames[f].pc # "start"})

\* Execute Walker has ended after reaching one function twice, through two
\* calls, and its execute callback was invoked twice
C28_Witness ==
  /\ pc = "done" /\ execResult = "fulfilled"
  /\ \E n \in DOMAIN heap0 : Count(execLog, n) = 2

\* the keys of the bag a step changes
Changed == {k \in Keys : inputs'[k] # inputs[k]}
\* the keys a call's rename table assigns
LocalKeys(action) == {action.inputs[i][1] : i \in DOMAIN action.inputs}

\* C25 (as stated): a step of the plan traversal that changes the inputs bag is
\* the plan callback of a function action, and changes only keys that callback writes
C25_PlanWritesOnlyInCallbacks ==
  [][ (stack # <<>> /\ frames[Top].fn = "plan" /\ inputs' # inputs)
      => /\ heap[frames[Top].node].type = "function"
         /\ Changed \subseteq heap[frames[Top].node].writes.plan ]_vars

\* C25 (amended): a step that changes the inputs bag during a plan traversal is
\* either the plan callback of a function action, changing only the keys that
\* callback writes, or the rename of a call whose target is registered, changing
\* only the local keys of that call's rename table
C25_PlanWritesByCallbackOrRename ==
  [][ (inputs' # inputs /\ (stack = <<>> \/ frames[Top].fn = "plan"))
      => /\ stack # <<>>
         /\ LET action == heap[frames[Top].node]
            IN \/ /\ action.type = "function"
                  /\ Changed \subseteq action.writes.plan
               \/ /\ action.type = "call"
                  /\ registry[action.targetAction] # NoNode
                  /\ Changed \subseteq LocalKeys(action) ]_vars

\* a finished plan-only run in which a rename filled k3 and a plan callback wrote k1
C25_Witness ==
  /\ runMode = "plan"
  /\ Quiescent
  /\ inputs["k3"] \in {"v1", "v2"}
  /\ inputs["k1"] = "planned"

\* the names of the named actions the resources return at top level
TopLevelNames ==
  {heap0[Flatten(resources)[i]].name : i \in DOMAIN Flatten(resources)} \ {NoName}

\* C26: once the registry is built, its keys are exactly the names of the named
\* actions the resources returned at top level, and no call whose target name
\* is not among them has entered a target.
C26_RegistryKeysAreTopLevelNames ==
  (pc # "build" \/ BuildDone) =>
    /\ {name \in Names : registry[name] # NoNode} = TopLevelNames
    /\ \A f \in DOMAIN frames :
         frames[f].via # NoNode => heap0[frames[f].via].targetAction \in TopLevelNames

\* a resource returned an anonymous action at top level, the action named c.x
\* is only a child of the returned group b.x; neither is registered, an optional
\* call to c.x has ended without entering anything, and c.x itself has run as a
\* child of b.x
C26_Witness ==
  /\ pc = "done"
  /\ heap0[6].name = NoName
  /\ heap0[9].name = "c.x"
  /\ registry["c.x"] = NoNode
  /\ \E f \in DOMAIN frames, g \in DOMAIN frames :
       /\ heap0[frames[f].node].type = "call"
       /\ heap0[frames[f].node].targetAction = "c.x"
       /\ frames[f].status = "fulfilled"
       /\ \A h \in DOMAIN frames : frames[h].via # frames[f].node
       /\ frames[g].node = 9
       /\ frames[g].status = "fulfilled"

\* C27: once Execute Walker has gone past a shell action whose command exits
\* with a non-zero status, no later leaf is executed and the traversal does not
\* report success.
C27_ShellFailurePropagates ==
  \A f \in DOMAIN frames :
    (/\ frames[f].fn = "exec" /\ heap0[frames[f].node].type = "shell"
     /\ heap0[frames[f].node].fails /\ frames[f].pc # "start") =>
      /\ Len(execLog) = frames[f].execAt + 1
      /\ execResult # "fulfilled"

\* C29: with the registry built from the six fixture resources and the four
\* active plugins, whenever Execute Walker has entered teams-manifest.provision
\* the bag it saw at that moment held tab.endpoint and azure-bot.botId as
\* written by execute callbacks.
C29_ManifestSeesEndpointAndBotId ==
  heap0 = FixtureHeap(ActiveResourcePlugins) =>
    \A n \in 1..Len(observed) :
      (observed[n].fn = "exec"
         /\ heap0[observed[n].target].name = "teams-manifest.provision") =>
        /\ observed[n].seen["tab.endpoint"] = "executed"
        /\ observed[n].seen["azure-bot.botId"] = "executed"

\* Execute Walker alone has run the fixture root to its normal end and has
\* executed teams-manifest.provision on the way
C29_Witness ==
  /\ heap0 = FixtureHeap(ActiveResourcePlugins)
  /\ runMode = "exec"
  /\ pc = "done"
  /\ execResult = "fulfilled"
  /\ \E n \in 1..Len(observed) :
       /\ observed[n].fn = "exec"
       /\ heap0[observed[n].target].name = "teams-manifest.provision"

\* the leaves a walker reaches from node n, and the keys their callbacks write
Leaves(n) == ExecLeaves(heap0, registry, n)
PlanKeys(n) == UNION {heap0[Leaves(n)[i]].writes.plan : i \in DOMAIN Leaves(n)}
ExecuteKeys(n) == UNION {heap0[Leaves(n)[i]].writes.execute : i \in DOMAIN Leaves(n)}

\* the bag after the leaves of the given children have executed one after
\* another in the given order, each key holding the leaf that wrote it last
RECURSIVE LastWriters(_, _)
LastWriters(bag, leaves) ==
  IF leaves = <<>> THEN bag
  ELSE LastWriters([k \in DOMAIN bag |->
                      IF k \in heap0[Head(leaves)].writes.execute
                        THEN Head(leaves) ELSE bag[k]], Tail(leaves))
RECURSIVE LeavesOfAll(_)
LeavesOfAll(children) ==
  IF children = <<>> THEN <<>> ELSE Leaves(Head(children)) \o LeavesOfAll(Tail(children))
Orders(children) ==
  {[i \in DOMAIN children |-> children[f[i]]] :
     f \in {f \in [DOMAIN children -> DOMAIN children] :
              \A i \in DOMAIN children, j \in DOMAIN children : f[i] = f[j] => i = j}}

\* C30: with the registry built from the fixture resources, in every parallel
\* group of the fixture root no two children write a common key, in plan or in
\* execute, and executing the children in any order leaves every key with the
\* same last writer.
C30_ParallelSiblingsWriteDisjointKeys ==
  (resources = FixtureResources /\ (pc # "build" \/ BuildDone)) =>
    \A g \in DOMAIN heap0 :
      IsParallel(g) =>
        LET children == heap0[g].actions
            unset == [k \in Keys |-> NoNode]
        IN /\ \A i \in DOMAIN children, j \in DOMAIN children :
                i # j =>
                  /\ PlanKeys(children[i]) \cap PlanKeys(children[j]) = {}
                  /\ ExecuteKeys(children[i]) \cap ExecuteKeys(children[j]) = {}
           /\ \A order \in Orders(children) :
                LastWriters(unset, LeavesOfAll(order))
                  = LastWriters(unset, LeavesOfAll(children))

\* Execute Walker has run the fixture root with the four active plugins to
\* its end; every child of a parallel group whose target is registered was
\* entered and ended normally, and aad.provision, a child of the first
\* parallel group, wrote its keys
C30_Witness ==
  /\ heap0 = FixtureHeap(ActiveResourcePlugins)
  /\ pc = "done"
  /\ execResult = "fulfilled"
  /\ inputs["aad.clientId"] = "executed"
  /\ inputs["aad.clientSecret"] = "executed"
  /\ \A g \in DOMAIN heap0 :
       IsParallel(g) =>
         \A i \in DOMAIN heap0[g].actions :
           registry[heap0[heap0[g].actions[i]].targetAction] # NoNode =>
             \E f \in DOMAIN frames :
               /\ frames[f].fn = "exec"
               /\ frames[f].via = heap0[g].actions[i]
               /\ frames[f].status = "fulfilled"

\* the nodes a walker goes to from node n: the children of a group, the
\* registered target of a call
Successors(n) ==
  CASE heap0[n].type = "group" -> {heap0[n].actions[i] : i \in DOMAIN heap0[n].actions}
    [] heap0[n].type = "call" ->
         IF LastNamed(heap0[n].targetAction) = NoNode THEN {}
         ELSE {LastNamed(heap0[n].targetAction)}
    [] OTHER -> {}
RECURSIVE ReachableFrom(_)
ReachableFrom(nodes) ==
  LET next == nodes \cup UNION {Successors(n) : n \in nodes}
  IN IF next = nodes THEN nodes ELSE ReachableFrom(next)
\* some action can be reached from itself
Cyclic == \E n \in DOMAIN heap0 : n \in ReachableFrom(Successors(n))
\* one action is being run by two nested invocations
Reentered ==
  \E i \in DOMAIN stack, j \in DOMAIN stack :
    i < j /\ frames[stack[i]].node = frames[stack[j]].node

MissingWithTable(n) ==
  /\ heap0[n].type = "call"
  /\ heap0[n].inputs # <<>>
  /\ registry[heap0[n].targetAction] = NoNode

\* C32: the step of either walker that processes a call whose target is not
\* registered, required or optional, ends the call's invocation and leaves
\* the inputs bag as it was.
C32_MissingTargetKeepsBag ==
  [][ (/\ stack # <<>> /\ frames[Top].pc = "start"
       /\ heap0[frames[Top].node].type = "call"
       /\ registry[heap0[frames[Top].node].targetAction] = NoNode)
      => /\ inputs' = inputs
         /\ frames'[Top].pc = "end" ]_vars

\* Plan Walker and then Execute Walker have gone past an optional call to an
\* unregistered target that has the rename table {k3: k1}; k3 is still unset
C32_Witness ==
  /\ inputs["k3"] = Undefined
  /\ \A fn \in {"plan", "exec"} :
       \E f \in DOMAIN frames :
         /\ frames[f].fn = fn
         /\ MissingWithTable(frames[f].node)
         /\ ~heap0[frames[f].node].required
         /\ frames[f].status = "fulfilled"

\* C33: whenever a walker has entered the target of a call, the bag the target
\* saw is the bag before the call with the entries of the rename table applied
\* one after another, where applying an entry {local: source} leaves the value
\* under source as it is and puts that value under local, the undefined value
\* included.
C33_RenameCopiesUnconditionally ==
  \A n \in 1..Len(observed) :
    LET o == observed[n]
        table == heap0[o.call].inputs
        Applied(j) == ApplyRename(o.pre, SubSeq(table, 1, j))
    IN /\ o.seen = Applied(Len(table))
       /\ \A j \in 1..Len(table) :
            /\ Applied(j)[table[j][2]] = Applied(j - 1)[table[j][2]]
            /\ Applied(j)[table[j][1]] = Applied(j - 1)[table[j][2]]
            /\ \A k \in Keys \ {table[j][1]} : Applied(j)[k] = Applied(j - 1)[k]

\* Execute Walker has entered a function through a call with the rename table
\* {k1: k3}: k3 held no value and k1 held v1 before the call, and the function
\* saw k1 without a value and k3 as before
C33_Witness ==
  \E n \in 1..Len(observed) :
    /\ observed[n].fn = "exec"
    /\ heap0[observed[n].call].inputs = << <<"k1", "k3">> >>
    /\ observed[n].pre["k1"] = "v1"
    /\ observed[n].pre["k3"] = Undefined
    /\ observed[n].seen["k1"] = Undefined
    /\ observed[n].seen["k3"] = Undefined

\* C34: in a run on the group fx.deploy, every function reached through the
\* call to fx.build is executed before every function reached through a
\* <hosting>.deploy call.
C34_BuildBeforeDeploy ==
  resources = DeployResources =>
    \A i \in 1..Len(execLog), j \in 1..Len(execLog) :
      (/\ heap0[execLog[i]].name \in {"tab-code.build", "teams-bot.build"}
       /\ heap0[execLog[j]].name \in {"azure-storage.deploy", "azure-web-app.deploy"})
        => i < j

\* C35: once fx.preConfigure has executed normally for an environment other
\* than local in a project with a teams-bot and a teams-tab component, the
\* state under teams-bot holds the endpoint and the domain of the resource
\* that hosts the bot.
C35_BotStateFromBotHosting ==
  LET teamsBot == getComponent(projectSetting, TeamsBot)
      teamsTab == getComponent(projectSetting, TeamsTab)
  IN (/\ cpc = "done" /\ coutcome = "ok" /\ envInfo.envName # "local"
      /\ teamsBot # NoComponent /\ teamsTab # NoComponent) =>
       /\ envInfo.state[TeamsBot].defined
       /\ envInfo.state[TeamsBot].endpoint = envInfo.state[teamsBot.hosting].endpoint
       /\ envInfo.state[TeamsBot].domain = envInfo.state[teamsBot.hosting].domain

\* C36: the promise of a task started with runTask, once resolved, was
\* resolved by one call of resolve, after the process of the task had ended
\* and with the exit code of that process.
C36_ResolvesOnceWithExitCode ==
  \A t \in TaskIds :
    runs[t].promise = "resolved" =>
      /\ runs[t].resolveCalls = 1
      /\ tasks[t].processEnded
      /\ runs[t].value = tasks[t].exitCode

\* C37: a ContinueDialogAsync turn that starts after the stored expiry with a
\* message activity or a token-exchange invoke ends the dialog with no token,
\* and neither recognizes a token nor sends anything in that turn.
C37_ExpiredTurnEndsWithoutRecognition ==
  ( /\ turn.op = "continue"
    /\ turn.at > turn.expires0
    /\ \/ turn.activity.type = "message"
       \/ turn.activity.type = "invoke" /\ turn.activity.name = TokenExchangeOperationName )
  => /\ turn.outcome = "EndDialog"
     /\ ppc = "idle"
     /\ ~dialog.active
     /\ dialog.result = NoToken
     /\ sent = <<>>

\* an expired turn whose invoke carried a well-formed token
C37_Witness ==
  /\ turn.op = "continue"
  /\ turn.at > turn.expires0
  /\ turn.activity.type = "invoke"
  /\ turn.activity.name = TokenExchangeOperationName
  /\ turn.activity.token = <<"h", "p", "s">>
  /\ turn.outcome = "EndDialog"

====
